---- MODULE Spec2Model ----
(***************************************************************************)
(* The deterministic concurrency harness of lonely-transactions: the two   *)
(* read-uncommitted stores (SimpleDBReadUncommitted, without write locks,  *)
(* and SimpleDBReadUncommittedWriteLock, with row-level write locks), the  *)
(* barrier table and the script executor (TxnsExecutor / Txn.run).         *)
(*                                                                         *)
(* Every mutex is modelled with its holder, and every critical section of  *)
(* the stores as two steps (Lock, then body + Unlock), so that the order   *)
(* in which locks are taken is visible in the states.                      *)
(***************************************************************************)
EXTENDS Integers, Sequences, FiniteSets, TLC

\* ------------------------------------------------------------------ bounds

\* Clients that drive the store directly in the "free" scenario.
FreeClients == 2
\* Set/Delete calls a client makes in one transaction in the "free" scenario.
MaxWrites == 2

\* ------------------------------------------------------------------ domains

\* One worker (goroutine) per script; the scenarios have at most four (setup,
\* txn1, txn2 and txn3 of TestWriteCycleG0).
NumScripts == 4
Workers == 1..(IF FreeClients > NumScripts THEN FreeClients ELSE NumScripts)
NoWorker == 0

Keys == {1, 2}
\* The "free" scenario starts with key 1 present, holding SetupVal, and key 2
\* absent; client w writes the value FreeVal(w).
SetupVal == 10
FreeVal(w) == 100 * w

\* nextTxnId starts at 1; a Txn that has not run BeginTx has txnId 0.
FirstTxnId == 1
TxIds == 0..(Cardinality(Workers) + 1)

DBs == {"SimpleDBReadUncommitted", "SimpleDBReadUncommittedWriteLock"}
\* A Database (db_interface.go) whose calls may return an error: it is
\* SimpleDBReadUncommitted, except that any call may fail before touching the store.
FaultyDB == "FaultyDB"
Scenarios ==
    {"free", "dirty_write", "write_cycle_g0", "dirty_read",
     "dirty_write_unbounded", "complex_interleaving", "read_latest",
     "double_signal", "dup_names", "store_errors", "unsignaled_wait",
     "row_deadlock", "row_waiters", "end_twice", "lost_update_increment",
     "dirty_read_with_barriers", "dirty_write_unbounded_second",
     "write_cycle_g0_scripted", "circular_information_flow_g1c", "lost_update"}
\* The stores a scenario is run on.
DBsOf(scn) == IF scn = "store_errors" THEN {FaultyDB} ELSE DBs

BarrierNames ==
    {"txn1_wrote_first", "txn2_wrote_second", "txn1_committed", "txn2_committed",
     "txn1_wrote_key1", "txn1_after_write", "txn2_after_read", "txn1_rolled_back",
     "setup_done", "txn1_updated", "sig", "dropped_done", "txn1_first_write_done",
     "never_signaled", "txn1_read", "txn2_read", "txn1_wrote", "txn2_wrote",
     "setup_complete", "txn2_wrote_key2", "txn1_read_key2", "txn2_read_key1"}

VARIABLES
    scenario,      \* which scripts are run (fixed by Init)
    db,            \* which store implementation is used (fixed by Init)
    script,        \* Txn.operations of every script
    phase,         \* "recorded" -> "running" -> "returned" (Execute)
    barriers,      \* TxnsExecutor.barriers: name -> "nil" | "open" | "closed"
    resultStore,   \* Results.data: <<worker, opIndex>> -> value
    data,          \* the key map; DOMAIN data is the set of present keys
    muWriter,      \* d.mu: the worker holding it for writing, or NoWorker
    muReaders,     \* d.mu: the workers holding it for reading
    nextTxnId,
    txnUndoOps,    \* txId -> sequence of undo entries; DOMAIN = ids with a log
    rowLocksMu,    \* d.rowLocksMu: its holder, or NoWorker
    rowLocks,      \* key -> "nil" | "unlocked" | "locked" (the per-row mutex)
    txnHeldLocks,  \* txId -> set of locked keys; DOMAIN = ids with an entry
    pc,            \* every worker's position
    ip,            \* every worker's index into its script (1-based)
    cur,           \* the operation a worker is executing
    txnId,         \* Txn.txnId
    fatal,         \* a Go runtime panic has ended the process
    \* history variables, read by the properties only
    rowLockedBy,   \* key -> transactions that locked its mutex and were not unlocked
    txState,       \* worker -> "none" | "active" | "committed" | "aborted"
    touched,       \* worker -> keys its transaction has written
    snap,          \* worker -> the key map immediately before its first write
    foreign,       \* worker -> keys others mutated since its first write
    timedOut,      \* workers whose bounded wait returned with the barrier unsignaled
    observed,      \* <<worker, opIndex>> -> the value that Get read from the store
    lastMut,       \* key -> what the most recent mutation of the key left there
    errLog,        \* <<worker, opIndex>> of the store calls that returned an error
    delPre,        \* worker -> key -> what its transaction's latest Delete found
    fnCalls,       \* <<worker, opIndex>> -> invocations of the valueFn of SetComputed
    firstPre       \* worker -> key -> what its transaction's first write of the key found

storeVars == <<data, muWriter, muReaders, nextTxnId, txnUndoOps,
               rowLocksMu, rowLocks, txnHeldLocks>>
execVars == <<scenario, db, script, phase, barriers, resultStore>>
workerVars == <<pc, ip, cur, txnId, fatal>>
histVars == <<rowLockedBy, txState, touched, snap, foreign, timedOut,
              observed, lastMut, errLog, delPre, fnCalls, firstPre>>
vars == <<storeVars, execVars, workerVars, histVars>>

\* ------------------------------------------------------------------ operations

Op(kind, key, val, name) == [kind |-> kind, key |-> key, val |-> val, name |-> name]
OpBeginTx == Op("BeginTx", 0, 0, "")
OpSet(k, v) == Op("Set", k, v, "")
OpGet(k) == Op("Get", k, 0, "")
OpDelete(k) == Op("Delete", k, 0, "")
OpCommit == Op("Commit", 0, 0, "")
OpRollback == Op("Rollback", 0, 0, "")
OpBarrier(n) == Op("Barrier", 0, 0, n)
OpWaitFor(n) == Op("WaitFor", 0, 0, n)
OpWaitForWithTimeout(n) == Op("WaitForWithTimeout", 0, 0, n)
OpPrintDbState == Op("PrintDbState", 0, 0, "")
\* SetComputed(k, valueFn), where valueFn returns one more than the value stored
\* for the handle (own script, opIndex g): exec.resultStore.GetValue(read) + 1.
OpSetComputed(k, g) == Op("SetComputed", k, g, "")
NoOp == Op("none", 0, 0, "")

\* ------------------------------------------------------------------ the key map

Lookup(d, k) == IF k \in DOMAIN d THEN d[k] ELSE 0
Put(d, k, v) == [x \in (DOMAIN d) \cup {k} |-> IF x = k THEN v ELSE d[x]]
Remove(d, k) == [x \in (DOMAIN d) \ {k} |-> d[x]]
EmptyMap == [x \in {} |-> 0]

\* An undo entry is the closure Set or Delete appends: it captures the key and
\* whether the key existed (ok) and its old value.
UndoEntry(k, ok, old) == [key |-> k, ok |-> ok, old |-> old]
ApplyUndo(d, e) == IF e.ok THEN Put(d, e.key, e.old) ELSE Remove(d, e.key)

UndoOf(t) == IF t \in DOMAIN txnUndoOps THEN txnUndoOps[t] ELSE <<>>
Held(t) == IF t \in DOMAIN txnHeldLocks THEN txnHeldLocks[t] ELSE {}

MapPut(m, t, v) == [x \in (DOMAIN m) \cup {t} |-> IF x = t THEN v ELSE m[x]]
MapDelete(m, t) == [x \in (DOMAIN m) \ {t} |-> m[x]]

\* Mutant of ReplayUndo: the undo closures run from the first to the last.
RECURSIVE ReplayUndoForward(_, _, _)
ReplayUndoForward(d, log, i) ==
    IF i = 0 THEN d ELSE ApplyUndo(ReplayUndoForward(d, log, i - 1), log[i])

\* Rollback's loop: for i := len-1; i >= 0; i-- { ops[i]() }
RECURSIVE ReplayUndo(_, _, _)
ReplayUndo(d, log, i) ==
    IF i = 0 THEN d ELSE ReplayUndo(ApplyUndo(d, log[i]), log, i - 1)

\* ------------------------------------------------------------------ scripts

\* TestDirtyWrite (anomaly_dirty_writes.go).
DirtyWriteScripts ==
    <<  <<OpBeginTx, OpSet(1, 100), OpBarrier("txn1_wrote_first"),
          OpWaitForWithTimeout("txn2_wrote_second"), OpPrintDbState,
          OpSet(2, 200), OpCommit, OpBarrier("txn1_committed")>>,
        <<OpBeginTx, OpWaitFor("txn1_wrote_first"), OpPrintDbState,
          OpSet(1, 200), OpSet(2, 100), OpBarrier("txn2_wrote_second"),
          OpWaitFor("txn1_committed"), OpCommit, OpBarrier("txn2_committed")>>,
        <<OpBeginTx, OpWaitFor("txn2_committed"), OpWaitFor("txn1_committed"),
          OpGet(1), OpGet(2), OpCommit>>  >>

\* TestWriteCycleG0 without its setup script: txn1, txn2 and the reader txn3.
WriteCycleG0Scripts ==
    <<  <<OpBeginTx, OpSet(1, 11), OpBarrier("txn1_wrote_key1"),
          OpSet(2, 21), OpCommit, OpBarrier("txn1_committed")>>,
        <<OpBeginTx, OpWaitFor("txn1_wrote_key1"), OpSet(1, 12), OpSet(2, 22),
          OpCommit, OpBarrier("txn2_committed")>>,
        <<OpBeginTx, OpWaitFor("txn2_committed"), OpGet(1), OpGet(2), OpCommit>>  >>

\* TestDirtyRead, with a reader txn3 ordered after txn1's Rollback by one more
\* barrier (the pattern of TestRollbackAfterBarrier).
DirtyReadScripts ==
    <<  <<OpBeginTx, OpSet(1, 100), OpBarrier("txn1_after_write"),
          OpWaitFor("txn2_after_read"), OpRollback, OpBarrier("txn1_rolled_back")>>,
        <<OpBeginTx, OpWaitFor("txn1_after_write"), OpPrintDbState, OpGet(1),
          OpBarrier("txn2_after_read"), OpCommit>>,
        <<OpBeginTx, OpWaitFor("txn1_rolled_back"), OpGet(1), OpCommit>>  >>

\* TestDirtyWrite in its first form (unbounded waits only): txn1 waits for
\* txn2_committed before its second write.
DirtyWriteUnboundedScripts ==
    <<  <<OpBeginTx, OpSet(1, 100), OpBarrier("txn1_wrote_first"),
          OpWaitFor("txn2_committed"), OpPrintDbState,
          OpSet(2, 200), OpCommit, OpBarrier("txn1_committed")>>,
        <<OpBeginTx, OpWaitFor("txn1_wrote_first"), OpPrintDbState,
          OpSet(1, 200), OpSet(2, 100), OpCommit, OpBarrier("txn2_committed")>>,
        <<OpBeginTx, OpWaitFor("txn2_committed"), OpWaitFor("txn1_committed"),
          OpGet(1), OpGet(2), OpCommit>>  >>

\* TestComplexInterleaving: setup, txn1 and txn2; both wait for setup_done.
ComplexInterleavingScripts ==
    <<  <<OpBeginTx, OpSet(1, 0), OpSet(2, 0), OpCommit, OpBarrier("setup_done")>>,
        <<OpWaitFor("setup_done"), OpBeginTx, OpGet(1), OpSet(1, 10),
          OpBarrier("txn1_updated"), OpCommit>>,
        <<OpWaitFor("setup_done"), OpBeginTx, OpWaitFor("txn1_updated"), OpGet(1),
          OpSet(2, 20), OpCommit>>  >>

\* TestSequentialOperations (a transaction reads its own write), continued with
\* a Delete, a second Get and a Rollback, next to a transaction that reads the
\* same key twice at any moment and one that overwrites it.
ReadLatestScripts ==
    <<  <<OpBeginTx, OpSet(1, 500), OpPrintDbState, OpGet(1), OpDelete(1),
          OpGet(1), OpRollback>>,
        <<OpBeginTx, OpGet(1), OpGet(1), OpCommit>>,
        <<OpBeginTx, OpSet(1, 300), OpCommit>>  >>

\* A barrier name signaled twice by one script and once more by another.
DoubleSignalScripts ==
    <<  <<OpBeginTx, OpBarrier("sig"), OpCommit, OpBarrier("sig")>>,
        <<OpBarrier("sig")>>,
        <<OpWaitFor("sig"), OpBeginTx, OpGet(1), OpCommit>>  >>

\* Two scripts recorded under the same name, and a third one.
DupNamesScripts ==
    <<  <<OpBeginTx, OpGet(1), OpBarrier("dropped_done"), OpCommit>>,
        <<OpBeginTx, OpGet(2), OpCommit>>,
        <<OpBeginTx, OpSet(2, 55), OpCommit>>  >>

\* TestWriteWriteConflict with a Get in txn2, run on a store whose calls may
\* return errors.
StoreErrorsScripts ==
    <<  <<OpBeginTx, OpSet(1, 100), OpBarrier("txn1_first_write_done"), OpCommit,
          OpBarrier("txn1_committed")>>,
        <<OpBeginTx, OpWaitFor("txn1_first_write_done"), OpGet(1), OpSet(1, 200),
          OpCommit>>  >>

\* A script that waits for a barrier name which no script signals, next to the
\* writer of TestWriteWriteConflict.
UnsignaledWaitScripts ==
    <<  <<OpBeginTx, OpSet(1, 100), OpBarrier("txn1_first_write_done"), OpCommit>>,
        <<OpBeginTx, OpWaitFor("never_signaled"), OpGet(1), OpCommit>>  >>

\* Two writers that take the same two keys in opposite orders, without barriers.
RowDeadlockScripts ==
    <<  <<OpBeginTx, OpSet(1, 100), OpSet(2, 100), OpCommit>>,
        <<OpBeginTx, OpSet(2, 200), OpSet(1, 200), OpCommit>>  >>

\* Three writers of one key, without barriers; one ends by Rollback.
RowWaitersScripts ==
    <<  <<OpBeginTx, OpSet(1, 100), OpCommit>>,
        <<OpBeginTx, OpSet(1, 200), OpRollback>>,
        <<OpBeginTx, OpDelete(1), OpCommit>>  >>

\* A Rollback after the Commit of the same transaction, a second Rollback, and
\* a reader, without barriers.
EndTwiceScripts ==
    <<  <<OpBeginTx, OpSet(1, 100), OpCommit, OpRollback>>,
        <<OpBeginTx, OpSet(2, 200), OpRollback, OpRollback>>,
        <<OpBeginTx, OpGet(1), OpGet(2), OpCommit>>  >>

\* TestLostUpdateIncrement. Scenario "lost_update" runs it on an empty store,
\* "lost_update_increment" on a store in which an earlier, committed
\* transaction left the counter (key 1) at SetupVal.
LostUpdateIncrementScripts ==
    <<  <<OpBeginTx, OpGet(1), OpBarrier("txn1_read"), OpWaitFor("txn2_read"),
          OpSetComputed(1, 1), OpBarrier("txn1_wrote"), OpWaitFor("txn2_wrote"),
          OpCommit, OpBarrier("txn1_committed")>>,
        <<OpBeginTx, OpWaitFor("txn1_read"), OpGet(1), OpBarrier("txn2_read"),
          OpWaitFor("txn1_wrote"), OpPrintDbState, OpSetComputed(1, 2),
          OpBarrier("txn2_wrote"), OpCommit, OpBarrier("txn2_committed")>>,
        <<OpBeginTx, OpWaitFor("txn1_committed"), OpWaitFor("txn2_committed"),
          OpGet(1), OpCommit>>  >>

\* TestDirtyReadWithBarriers.
DirtyReadWithBarriersScripts ==
    <<  <<OpBeginTx, OpSet(1, 100), OpBarrier("txn1_after_write"), OpRollback>>,
        <<OpBeginTx, OpWaitFor("txn1_after_write"), OpGet(1), OpCommit>>  >>

\* TestDirtyWrite with its bounded wait replaced by WaitFor("txn2_wrote_second").
DirtyWriteUnboundedSecondScripts ==
    [DirtyWriteScripts EXCEPT ![1][4] = OpWaitFor("txn2_wrote_second")]

\* TestWriteCycleG0 as it is recorded: the setup script is the fourth worker,
\* and runs next to txn1, txn2 and txn3.
WriteCycleG0ScriptedScripts ==
    WriteCycleG0Scripts \o
    <<  <<OpBeginTx, OpSet(1, 10), OpSet(2, 20), OpCommit>>  >>

\* TestCircularInformationFlow_G1c: txn1, txn2, txn3 and, fourth, setup.
CircularInformationFlowG1cScripts ==
    <<  <<OpWaitFor("setup_complete"), OpBeginTx, OpSet(1, 11),
          OpBarrier("txn1_wrote_key1"), OpWaitFor("txn2_wrote_key2"),
          OpPrintDbState, OpGet(2), OpBarrier("txn1_read_key2"),
          OpWaitFor("txn2_read_key1"), OpCommit, OpBarrier("txn1_committed")>>,
        <<OpWaitFor("setup_complete"), OpBeginTx, OpWaitFor("txn1_wrote_key1"),
          OpSet(2, 22), OpBarrier("txn2_wrote_key2"), OpWaitFor("txn1_read_key2"),
          OpPrintDbState, OpGet(1), OpBarrier("txn2_read_key1"),
          OpWaitFor("txn1_committed"), OpCommit, OpBarrier("txn2_committed")>>,
        <<OpWaitFor("txn2_committed"), OpBeginTx, OpGet(1), OpGet(2), OpCommit>>,
        <<OpBeginTx, OpSet(1, 10), OpSet(2, 20), OpCommit,
          OpBarrier("setup_complete")>>  >>

ScriptsOf(scn) ==
    LET ss == CASE scn = "dirty_write" -> DirtyWriteScripts
                [] scn = "write_cycle_g0" -> WriteCycleG0Scripts
                [] scn = "dirty_read" -> DirtyReadScripts
                [] scn = "dirty_write_unbounded" -> DirtyWriteUnboundedScripts
                [] scn = "complex_interleaving" -> ComplexInterleavingScripts
                [] scn = "read_latest" -> ReadLatestScripts
                [] scn = "double_signal" -> DoubleSignalScripts
                [] scn = "dup_names" -> DupNamesScripts
                [] scn = "store_errors" -> StoreErrorsScripts
                [] scn = "unsignaled_wait" -> UnsignaledWaitScripts
                [] scn = "row_deadlock" -> RowDeadlockScripts
                [] scn = "row_waiters" -> RowWaitersScripts
                [] scn = "end_twice" -> EndTwiceScripts
                [] scn = "lost_update_increment" -> LostUpdateIncrementScripts
                [] scn = "dirty_read_with_barriers" -> DirtyReadWithBarriersScripts
                [] scn = "dirty_write_unbounded_second" ->
                       DirtyWriteUnboundedSecondScripts
                [] scn = "write_cycle_g0_scripted" -> WriteCycleG0ScriptedScripts
                [] scn = "circular_information_flow_g1c" ->
                       CircularInformationFlowG1cScripts
                [] scn = "lost_update" -> LostUpdateIncrementScripts
                [] OTHER -> <<>>
    IN  [w \in Workers |-> IF w <= Len(ss) THEN ss[w] ELSE <<>>]

\* NewTxn(name): the name each script was created with. The scripts of
\* "dup_names" are created as txn1, txn1 and txn3; elsewhere every script has
\* its own name.
TxnName(scn, w) == IF scn = "dup_names" /\ w = 2 THEN 1 ELSE w

\* NewTxn, e.txns[name] = txn: the script the map holds for a name is the last
\* one created with it.
Txns(scn) ==
    [n \in {TxnName(scn, w) : w \in Workers} |->
        CHOOSE w \in Workers :
            /\ TxnName(scn, w) = n
            /\ \A u \in Workers : TxnName(scn, u) = n => u <= w]

\* The script is in e.txns.
InTxns(scn, w) == Txns(scn)[TxnName(scn, w)] = w

\* The key map a scenario starts from: what earlier, committed transactions left.
SetupData(scn) ==
    CASE scn = "write_cycle_g0" -> {[k \in Keys |-> 10 * k]}
      [] scn = "lost_update_increment" -> {[k \in {1} |-> SetupVal]}
      [] scn = "free" -> {[k \in {1} |-> SetupVal]}
      [] OTHER -> {EmptyMap}

\* The workers Execute starts: one per script; in the "free" scenario the clients.
Started(w) ==
    IF scenario = "free" THEN w <= FreeClients
    ELSE script[w] # <<>> /\ InTxns(scenario, w)

\* ------------------------------------------------------------------ Init

\* NewSimpleDBReadUncommitted / NewSimpleDBReadUncommittedWriteLock, then the
\* setup transaction (if the scenario starts from data), then NewTxnsExecutor
\* and the recording of the scripts.
Init ==
    /\ scenario \in Scenarios
    /\ db \in DBsOf(scenario)
    /\ script = ScriptsOf(scenario)
    /\ phase = "recorded"
    /\ barriers = [n \in BarrierNames |-> "nil"]
    /\ resultStore = [x \in {} |-> 0]
    /\ data \in SetupData(scenario)
    /\ muWriter = NoWorker
    /\ muReaders = {}
    /\ nextTxnId = IF data = EmptyMap THEN FirstTxnId ELSE FirstTxnId + 1
    /\ txnUndoOps = [x \in {} |-> <<>>]
    /\ rowLocksMu = NoWorker
    /\ rowLocks = [k \in Keys |->
                     IF db = "SimpleDBReadUncommittedWriteLock" /\ k \in DOMAIN data
                     THEN "unlocked" ELSE "nil"]
    /\ txnHeldLocks = [x \in {} |-> {}]
    /\ pc = [w \in Workers |-> "unstarted"]
    /\ ip = [w \in Workers |-> 1]
    /\ cur = [w \in Workers |-> NoOp]
    /\ txnId = [w \in Workers |-> 0]
    /\ fatal = FALSE
    /\ rowLockedBy = [k \in Keys |-> {}]
    /\ txState = [w \in Workers |-> "none"]
    /\ touched = [w \in Workers |-> {}]
    /\ snap = [w \in Workers |-> EmptyMap]
    /\ foreign = [w \in Workers |-> {}]
    /\ timedOut = {}
    /\ observed = [x \in {} |-> 0]
    /\ lastMut = data
    /\ errLog = {}
    /\ delPre = [w \in Workers |-> [x \in {} |-> 0]]
    /\ fnCalls = [x \in {} |-> 0]
    /\ firstPre = [w \in Workers |-> [x \in {} |-> 0]]

\* ------------------------------------------------------------------ the executor

\* registerBarriers: a channel for every name some script of e.txns signals.
RegisteredBarriers ==
    [n \in BarrierNames |->
        IF \E w \in Workers : \E i \in 1..Len(script[w]) :
              /\ InTxns(scenario, w)
              /\ script[w][i].kind = "Barrier" /\ script[w][i].name = n
        THEN "open" ELSE "nil"]

\* Execute, phases 1 and 2: register the barriers, start one goroutine per script.
Execute ==
    /\ phase = "recorded"
    /\ phase' = "running"
    /\ barriers' = RegisteredBarriers
    /\ pc' = [w \in Workers |->
                IF Started(w) /\ (scenario = "free" \/ Len(script[w]) > 0)
                THEN "idle" ELSE "done"]
    /\ UNCHANGED <<storeVars, histVars, scenario, db, script, resultStore,
                   ip, cur, txnId, fatal>>

\* Mutant of ExecuteReturn: Execute returns without wg.Wait().
ExecuteReturn_NoWait ==
    /\ phase = "running"
    /\ ~fatal
    /\ phase' = "returned"
    /\ UNCHANGED <<storeVars, histVars, workerVars, scenario, db, script,
                   barriers, resultStore>>

\* Execute, phase 3: wg.Wait() returns when every goroutine has finished.
ExecuteReturn ==
    /\ phase = "running"
    /\ ~fatal
    /\ \A w \in Workers : pc[w] = "done"
    /\ phase' = "returned"
    /\ UNCHANGED <<storeVars, histVars, workerVars, scenario, db, script,
                   barriers, resultStore>>

\* The operations a client of the "free" scenario may call next: BeginTx, then
\* at most MaxWrites Set/Delete calls, then Commit or Rollback.
FreeOps(w) ==
    IF txState[w] = "none" THEN {OpBeginTx}
    ELSE {OpCommit, OpRollback}
         \cup (IF ip[w] - 2 < MaxWrites
               THEN {OpSet(k, FreeVal(w)) : k \in Keys}
                    \cup {OpDelete(k) : k \in Keys}
               ELSE {})

\* Txn.run: the operation the loop is at.
NextOps(w) ==
    IF scenario = "free" THEN FreeOps(w)
    ELSE IF ip[w] <= Len(script[w]) THEN {script[w][ip[w]]} ELSE {}

Running(w) == phase = "running" /\ ~fatal /\ pc[w] # "done"

\* The loop moves on to the next operation, or the goroutine ends.
More(w, op) ==
    IF scenario = "free" THEN op.kind \notin {"Commit", "Rollback"}
    ELSE ip[w] < Len(script[w])

Finish(w, op) ==
    /\ ip' = [ip EXCEPT ![w] = @ + 1]
    /\ cur' = [cur EXCEPT ![w] = NoOp]
    /\ pc' = [pc EXCEPT ![w] = IF More(w, op) THEN "idle" ELSE "done"]

\* The operations of the given kinds that the worker can start now: the one
\* the loop is at or, in the closure of SetComputed, the Set of the value that
\* valueFn returned.
StartOps(w, kinds) ==
    IF Running(w) /\ pc[w] = "idle"
    THEN {op \in NextOps(w) : op.kind \in kinds}
    ELSE IF Running(w) /\ pc[w] = "computed"
    THEN {op \in {cur[w]} : op.kind \in kinds}
    ELSE {}

\* The worker enters an operation of one of the given kinds at position p.
Start(w, kinds, p) ==
    \E op \in StartOps(w, kinds) :
        /\ cur' = [cur EXCEPT ![w] = op]
        /\ pc' = [pc EXCEPT ![w] = p]

MuFree == muWriter = NoWorker /\ muReaders = {}
WriteLockDB == db = "SimpleDBReadUncommittedWriteLock"

\* ------------------------------------------------------------------ history

\* A worker whose transaction has written and has not finished.
Tracking(u) == touched[u] # {} /\ txState[u] = "active"

\* Worker w mutates the keys ks of the key map.
NoteMutation(w, ks) ==
    foreign' = [u \in Workers |->
                  IF u # w /\ Tracking(u) THEN foreign[u] \cup ks ELSE foreign[u]]

\* Worker w mutates the keys ks in the step that ends its transaction.
NoteLastMutation(w, ks) ==
    foreign' = [u \in Workers |->
                  IF u = w THEN {}
                  ELSE IF Tracking(u) THEN foreign[u] \cup ks ELSE foreign[u]]

\* The transaction of worker w has ended: its history is dropped.
EndHistory(w) ==
    /\ touched' = [touched EXCEPT ![w] = {}]
    /\ snap' = [snap EXCEPT ![w] = EmptyMap]
    /\ delPre' = [delPre EXCEPT ![w] = EmptyMap]
    /\ firstPre' = [firstPre EXCEPT ![w] = EmptyMap]

\* Worker w writes key k: its first write records the key map before it.
NoteWrite(w, k) ==
    /\ touched' = [touched EXCEPT ![w] = @ \cup {k}]
    /\ snap' = [snap EXCEPT ![w] = IF touched[w] = {} THEN data ELSE @]
    /\ firstPre' = [firstPre EXCEPT ![w] =
                       IF k \in touched[w] THEN @
                       ELSE Put(@, k, [ok |-> k \in DOMAIN data,
                                       old |-> Lookup(data, k)])]
    /\ NoteMutation(w, {k})

\* What an undo replay of the log leaves at every key: the last closure run for
\* a key is the one its first write appended, and it puts back that write's
\* pre-image.
PreImages(d, log) ==
    LET ks == {log[i].key : i \in 1..Len(log)}
        first(k) == log[CHOOSE i \in 1..Len(log) :
                          /\ log[i].key = k
                          /\ \A j \in 1..Len(log) : log[j].key = k => i <= j]
    IN  [k \in ((DOMAIN d) \ ks) \cup {x \in ks : first(x).ok} |->
            IF k \in ks THEN first(k).old ELSE d[k]]

\* ------------------------------------------------------------------ BeginTx

\* BeginTx: d.mu.Lock()
BeginTx_Lock(w) ==
    /\ Start(w, {"BeginTx"}, "begin_cs")
    /\ MuFree
    /\ muWriter' = w
    /\ UNCHANGED <<data, muReaders, nextTxnId, txnUndoOps, rowLocksMu, rowLocks,
                   txnHeldLocks, execVars, ip, txnId, fatal, histVars>>

\* Mutant of BeginTx_Body: d.nextTxnId is not incremented.
BeginTx_Body_NoIncrement(w) ==
    /\ Running(w)
    /\ pc[w] = "begin_cs"
    /\ nextTxnId \in TxIds
    /\ txnUndoOps' = MapPut(txnUndoOps, nextTxnId, <<>>)
    /\ txnId' = [txnId EXCEPT ![w] = nextTxnId]
    /\ muWriter' = NoWorker
    /\ txState' = [txState EXCEPT ![w] = "active"]
    /\ touched' = [touched EXCEPT ![w] = {}]
    /\ foreign' = [foreign EXCEPT ![w] = {}]
    /\ Finish(w, cur[w])
    /\ UNCHANGED <<data, muReaders, nextTxnId, rowLocksMu, rowLocks, txnHeldLocks,
                   execVars, fatal, rowLockedBy, snap, timedOut,
                   observed, lastMut, errLog>>
    /\ UNCHANGED <<delPre, fnCalls, firstPre>>

\* BeginTx: the id is taken, the undo log created, d.mu unlocked; the closure of
\* Txn.BeginTx then stores the id in t.txnId.
BeginTx_Body(w) ==
    /\ Running(w)
    /\ pc[w] = "begin_cs"
    /\ nextTxnId \in TxIds
    /\ nextTxnId' = nextTxnId + 1
    /\ txnUndoOps' = MapPut(txnUndoOps, nextTxnId, <<>>)
    /\ txnId' = [txnId EXCEPT ![w] = nextTxnId]
    /\ muWriter' = NoWorker
    /\ txState' = [txState EXCEPT ![w] = "active"]
    /\ touched' = [touched EXCEPT ![w] = {}]
    /\ foreign' = [foreign EXCEPT ![w] = {}]
    /\ Finish(w, cur[w])
    /\ UNCHANGED <<data, muReaders, rowLocksMu, rowLocks, txnHeldLocks, execVars,
                   fatal, rowLockedBy, snap, timedOut,
                   observed, lastMut, errLog>>
    /\ UNCHANGED <<delPre, fnCalls, firstPre>>

\* ------------------------------------------------------------------ row locks

\* Mutant of AcquireRowLock_Enter: Set and Delete go to d.mu.Lock() without
\* calling acquireRowLock.
AcquireRowLock_Enter_Skip(w) ==
    /\ WriteLockDB
    /\ Start(w, {"Set", "Delete"}, "write_lock")
    /\ UNCHANGED <<storeVars, execVars, ip, txnId, fatal, histVars>>

\* acquireRowLock, line 42: d.rowLocksMu.Lock(), called first by Set and Delete
\* of the row-locked store.
AcquireRowLock_Enter(w) ==
    /\ WriteLockDB
    /\ Start(w, {"Set", "Delete"}, "acq_check")
    /\ rowLocksMu = NoWorker
    /\ rowLocksMu' = w
    /\ UNCHANGED <<data, muWriter, muReaders, nextTxnId, txnUndoOps, rowLocks,
                   txnHeldLocks, execVars, ip, txnId, fatal, histVars>>

\* Mutant of AcquireRowLock_Check: a new row mutex is stored on every call, as
\* if "if rowMu == nil" were missing.
AcquireRowLock_Check_FreshMutex(w) ==
    /\ Running(w)
    /\ pc[w] = "acq_check"
    /\ IF cur[w].key \in Held(txnId[w])
       THEN /\ pc' = [pc EXCEPT ![w] = "write_lock"]
            /\ UNCHANGED rowLocks
       ELSE /\ rowLocks' = [rowLocks EXCEPT ![cur[w].key] = "unlocked"]
            /\ pc' = [pc EXCEPT ![w] = "acq_rowmu"]
    /\ rowLocksMu' = NoWorker
    /\ UNCHANGED <<data, muWriter, muReaders, nextTxnId, txnUndoOps, txnHeldLocks,
                   execVars, ip, cur, txnId, fatal, histVars>>

\* Mutant of AcquireRowLock_Check: d.rowLocksMu is still locked when the worker
\* goes on to rowMu.Lock(), as if the Unlock of line 53 were missing.
AcquireRowLock_Check_KeepLocked(w) ==
    /\ Running(w)
    /\ pc[w] = "acq_check"
    /\ IF cur[w].key \in Held(txnId[w])
       THEN /\ pc' = [pc EXCEPT ![w] = "write_lock"]
            /\ rowLocksMu' = NoWorker
            /\ UNCHANGED rowLocks
       ELSE /\ rowLocks' = [rowLocks EXCEPT ![cur[w].key] =
                               IF @ = "nil" THEN "unlocked" ELSE @]
            /\ pc' = [pc EXCEPT ![w] = "acq_rowmu"]
            /\ UNCHANGED rowLocksMu
    /\ UNCHANGED <<data, muWriter, muReaders, nextTxnId, txnUndoOps, txnHeldLocks,
                   execVars, ip, cur, txnId, fatal, histVars>>

\* Mutant of AcquireRowLock_Check: no early return for a lock already held.
AcquireRowLock_Check_NoReentry(w) ==
    /\ Running(w)
    /\ pc[w] = "acq_check"
    /\ rowLocks' = [rowLocks EXCEPT ![cur[w].key] =
                      IF @ = "nil" THEN "unlocked" ELSE @]
    /\ pc' = [pc EXCEPT ![w] = "acq_rowmu"]
    /\ rowLocksMu' = NoWorker
    /\ UNCHANGED <<data, muWriter, muReaders, nextTxnId, txnUndoOps, txnHeldLocks,
                   execVars, ip, cur, txnId, fatal, histVars>>

\* acquireRowLock, lines 43-53: return if the lock is already held by txId;
\* otherwise look the row mutex up, creating it if nil; unlock d.rowLocksMu.
AcquireRowLock_Check(w) ==
    /\ Running(w)
    /\ pc[w] = "acq_check"
    /\ IF cur[w].key \in Held(txnId[w])
       THEN /\ pc' = [pc EXCEPT ![w] = "write_lock"]
            /\ UNCHANGED rowLocks
       ELSE /\ rowLocks' = [rowLocks EXCEPT ![cur[w].key] =
                               IF @ = "nil" THEN "unlocked" ELSE @]
            /\ pc' = [pc EXCEPT ![w] = "acq_rowmu"]
    /\ rowLocksMu' = NoWorker
    /\ UNCHANGED <<data, muWriter, muReaders, nextTxnId, txnUndoOps, txnHeldLocks,
                   execVars, ip, cur, txnId, fatal, histVars>>

\* Mutant of AcquireRowLock_RowMuLock: the worker goes on without waiting for
\* the row mutex to be unlocked.
AcquireRowLock_RowMuLock_NoBlock(w) ==
    /\ Running(w)
    /\ pc[w] = "acq_rowmu"
    /\ rowLocks' = [rowLocks EXCEPT ![cur[w].key] = "locked"]
    /\ rowLockedBy' = [rowLockedBy EXCEPT ![cur[w].key] = @ \cup {txnId[w]}]
    /\ pc' = [pc EXCEPT ![w] = "acq_relock"]
    /\ UNCHANGED <<data, muWriter, muReaders, nextTxnId, txnUndoOps, rowLocksMu,
                   txnHeldLocks, execVars, ip, cur, txnId, fatal,
                   txState, touched, snap, foreign, timedOut,
                   observed, lastMut, errLog>>
    /\ UNCHANGED <<delPre, fnCalls, firstPre>>

\* acquireRowLock, line 55: rowMu.Lock(), which blocks while the mutex is locked.
AcquireRowLock_RowMuLock(w) ==
    /\ Running(w)
    /\ pc[w] = "acq_rowmu"
    /\ rowLocks[cur[w].key] = "unlocked"
    /\ rowLocks' = [rowLocks EXCEPT ![cur[w].key] = "locked"]
    /\ rowLockedBy' = [rowLockedBy EXCEPT ![cur[w].key] = @ \cup {txnId[w]}]
    /\ pc' = [pc EXCEPT ![w] = "acq_relock"]
    /\ UNCHANGED <<data, muWriter, muReaders, nextTxnId, txnUndoOps, rowLocksMu,
                   txnHeldLocks, execVars, ip, cur, txnId, fatal,
                   txState, touched, snap, foreign, timedOut,
                   observed, lastMut, errLog>>
    /\ UNCHANGED <<delPre, fnCalls, firstPre>>

\* acquireRowLock, line 57: d.rowLocksMu.Lock()
AcquireRowLock_Relock(w) ==
    /\ Running(w)
    /\ pc[w] = "acq_relock"
    /\ rowLocksMu = NoWorker
    /\ rowLocksMu' = w
    /\ pc' = [pc EXCEPT ![w] = "acq_record"]
    /\ UNCHANGED <<data, muWriter, muReaders, nextTxnId, txnUndoOps, rowLocks,
                   txnHeldLocks, execVars, ip, cur, txnId, fatal, histVars>>

\* acquireRowLock, lines 58-62: record the key as held by txId; unlock.
AcquireRowLock_Record(w) ==
    /\ Running(w)
    /\ pc[w] = "acq_record"
    /\ txnHeldLocks' = MapPut(txnHeldLocks, txnId[w],
                              Held(txnId[w]) \cup {cur[w].key})
    /\ rowLocksMu' = NoWorker
    /\ pc' = [pc EXCEPT ![w] = "write_lock"]
    /\ UNCHANGED <<data, muWriter, muReaders, nextTxnId, txnUndoOps, rowLocks,
                   execVars, ip, cur, txnId, fatal, histVars>>

\* releaseRowLocks, line 67: d.rowLocksMu.Lock(), called first by Commit and
\* Rollback of the row-locked store.
ReleaseRowLocks_Lock(w) ==
    /\ WriteLockDB
    /\ Start(w, {"Commit", "Rollback"}, "rel_cs")
    /\ rowLocksMu = NoWorker
    /\ rowLocksMu' = w
    /\ UNCHANGED <<data, muWriter, muReaders, nextTxnId, txnUndoOps, rowLocks,
                   txnHeldLocks, execVars, ip, txnId, fatal, histVars>>

\* Mutant of ReleaseRowLocks_Body: the transaction's entry in txnHeldLocks is
\* kept, as if delete(d.txnHeldLocks, txId) were missing.
ReleaseRowLocks_Body_KeepEntry(w) ==
    /\ Running(w)
    /\ pc[w] = "rel_cs"
    /\ IF \E k \in Held(txnId[w]) : rowLocks[k] # "locked"
       THEN /\ fatal' = TRUE
            /\ UNCHANGED <<rowLocks, rowLockedBy, rowLocksMu, pc>>
       ELSE /\ rowLocks' = [k \in Keys |->
                              IF k \in Held(txnId[w]) THEN "unlocked" ELSE rowLocks[k]]
            /\ rowLockedBy' = [k \in Keys |->
                                 IF k \in Held(txnId[w])
                                 THEN rowLockedBy[k] \ {txnId[w]} ELSE rowLockedBy[k]]
            /\ rowLocksMu' = NoWorker
            /\ pc' = [pc EXCEPT ![w] = "end_lock"]
            /\ UNCHANGED fatal
    /\ UNCHANGED <<data, muWriter, muReaders, nextTxnId, txnUndoOps, execVars,
                   txnHeldLocks, ip, cur, txnId, txState, touched, snap, foreign,
                   timedOut,
                   observed, lastMut, errLog>>
    /\ UNCHANGED <<delPre, fnCalls, firstPre>>

\* Mutant of ReleaseRowLocks_Body: the transaction's entry is deleted but the
\* row mutexes are not unlocked.
ReleaseRowLocks_Body_NoUnlock(w) ==
    /\ Running(w)
    /\ pc[w] = "rel_cs"
    /\ txnHeldLocks' = MapDelete(txnHeldLocks, txnId[w])
    /\ rowLocksMu' = NoWorker
    /\ pc' = [pc EXCEPT ![w] = "end_lock"]
    /\ UNCHANGED <<data, muWriter, muReaders, nextTxnId, txnUndoOps, rowLocks,
                   execVars, ip, cur, txnId, fatal, histVars>>

\* releaseRowLocks, lines 69-72: unlock the mutex of every held key, delete the
\* transaction's entry, unlock d.rowLocksMu. Unlocking a mutex that is not
\* locked is a fatal error of the Go runtime.
ReleaseRowLocks_Body(w) ==
    /\ Running(w)
    /\ pc[w] = "rel_cs"
    /\ IF \E k \in Held(txnId[w]) : rowLocks[k] # "locked"
       THEN /\ fatal' = TRUE
            /\ UNCHANGED <<rowLocks, rowLockedBy, txnHeldLocks, rowLocksMu, pc>>
       ELSE /\ rowLocks' = [k \in Keys |->
                              IF k \in Held(txnId[w]) THEN "unlocked" ELSE rowLocks[k]]
            /\ rowLockedBy' = [k \in Keys |->
                                 IF k \in Held(txnId[w])
                                 THEN rowLockedBy[k] \ {txnId[w]} ELSE rowLockedBy[k]]
            /\ txnHeldLocks' = MapDelete(txnHeldLocks, txnId[w])
            /\ rowLocksMu' = NoWorker
            /\ pc' = [pc EXCEPT ![w] = "end_lock"]
            /\ UNCHANGED fatal
    /\ UNCHANGED <<data, muWriter, muReaders, nextTxnId, txnUndoOps, execVars,
                   ip, cur, txnId, txState, touched, snap, foreign, timedOut,
                   observed, lastMut, errLog>>
    /\ UNCHANGED <<delPre, fnCalls, firstPre>>

\* ------------------------------------------------------------------ Set, Delete

\* Mutant of SimpleDB_Write_Lock: a write waits until no other live transaction
\* has written the key.
SimpleDB_Write_Lock_WaitsForWriter(w) ==
    /\ ~WriteLockDB
    /\ Start(w, {"Set", "Delete"}, "write_cs")
    /\ \A u \in Workers \ {w} : ~(Tracking(u) /\ cur'[w].key \in touched[u])
    /\ MuFree
    /\ muWriter' = w
    /\ UNCHANGED <<data, muReaders, nextTxnId, txnUndoOps, rowLocksMu, rowLocks,
                   txnHeldLocks, execVars, ip, txnId, fatal, histVars>>

\* SimpleDBReadUncommitted.Set / Delete: d.mu.Lock() is the first thing they do.
SimpleDB_Write_Lock(w) ==
    /\ ~WriteLockDB
    /\ Start(w, {"Set", "Delete"}, "write_cs")
    /\ MuFree
    /\ muWriter' = w
    /\ UNCHANGED <<data, muReaders, nextTxnId, txnUndoOps, rowLocksMu, rowLocks,
                   txnHeldLocks, execVars, ip, txnId, fatal, histVars>>

\* SimpleDBReadUncommittedWriteLock.Set / Delete: d.mu.Lock() after acquireRowLock.
WriteLock_Write_Lock(w) ==
    /\ Running(w)
    /\ pc[w] = "write_lock"
    /\ MuFree
    /\ muWriter' = w
    /\ pc' = [pc EXCEPT ![w] = "write_cs"]
    /\ UNCHANGED <<data, muReaders, nextTxnId, txnUndoOps, rowLocksMu, rowLocks,
                   txnHeldLocks, execVars, ip, cur, txnId, fatal, histVars>>

\* Set under d.mu: append the undo closure (restore the old value, or delete the
\* key if it did not exist), write the value, unlock.
Set_Body(w) ==
    /\ Running(w)
    /\ pc[w] = "write_cs"
    /\ cur[w].kind = "Set"
    /\ LET k == cur[w].key
           e == UndoEntry(k, k \in DOMAIN data, Lookup(data, k))
       IN  /\ txnUndoOps' = MapPut(txnUndoOps, txnId[w], Append(UndoOf(txnId[w]), e))
           /\ data' = Put(data, k, cur[w].val)
           /\ lastMut' = Put(lastMut, k, cur[w].val)
           /\ NoteWrite(w, k)
    /\ muWriter' = NoWorker
    /\ Finish(w, cur[w])
    /\ UNCHANGED <<muReaders, nextTxnId, rowLocksMu, rowLocks, txnHeldLocks,
                   execVars, txnId, fatal, rowLockedBy, txState, timedOut,
                   observed, errLog>>
    /\ UNCHANGED <<delPre, fnCalls>>

\* Mutant of Delete_Body: the key is deleted without an undo closure.
Delete_Body_NoUndo(w) ==
    /\ Running(w)
    /\ pc[w] = "write_cs"
    /\ cur[w].kind = "Delete"
    /\ LET k == cur[w].key
       IN  /\ data' = Remove(data, k)
           /\ lastMut' = Remove(lastMut, k)
           /\ NoteWrite(w, k)
           /\ delPre' = [delPre EXCEPT ![w] =
                            Put(@, k, [ok |-> k \in DOMAIN data,
                                       old |-> Lookup(data, k),
                                       first |-> k \notin touched[w]])]
    /\ muWriter' = NoWorker
    /\ Finish(w, cur[w])
    /\ UNCHANGED <<muReaders, nextTxnId, txnUndoOps, rowLocksMu, rowLocks,
                   txnHeldLocks, execVars, txnId, fatal, rowLockedBy, txState,
                   timedOut, observed, errLog, fnCalls>>

\* Delete under d.mu: append the undo closure only if the key existed, delete
\* the key, unlock.
Delete_Body(w) ==
    /\ Running(w)
    /\ pc[w] = "write_cs"
    /\ cur[w].kind = "Delete"
    /\ LET k == cur[w].key
           e == UndoEntry(k, TRUE, Lookup(data, k))
       IN  /\ txnUndoOps' = IF k \in DOMAIN data
                            THEN MapPut(txnUndoOps, txnId[w],
                                        Append(UndoOf(txnId[w]), e))
                            ELSE txnUndoOps
           /\ data' = Remove(data, k)
           /\ lastMut' = Remove(lastMut, k)
           /\ NoteWrite(w, k)
           /\ delPre' = [delPre EXCEPT ![w] =
                            Put(@, k, [ok |-> k \in DOMAIN data,
                                       old |-> Lookup(data, k),
                                       first |-> k \notin touched[w]])]
    /\ muWriter' = NoWorker
    /\ Finish(w, cur[w])
    /\ UNCHANGED <<muReaders, nextTxnId, rowLocksMu, rowLocks, txnHeldLocks,
                   execVars, txnId, fatal, rowLockedBy, txState, timedOut,
                   observed, errLog>>
    /\ UNCHANGED fnCalls

\* ------------------------------------------------------------------ Get

\* Txn.Get: the handle it returns, (t.name, opIndex), opIndex counting from 0.
Handle(w, i) == <<TxnName(scenario, w), i>>

\* The operations of a script that call the store and can return an error.
DBCalls == {"BeginTx", "Set", "Get", "Delete", "Commit", "Rollback"}

\* Get: d.mu.RLock()
Get_RLock(w) ==
    /\ Start(w, {"Get"}, "get_cs")
    /\ muWriter = NoWorker
    /\ muReaders' = muReaders \cup {w}
    /\ UNCHANGED <<data, muWriter, nextTxnId, txnUndoOps, rowLocksMu, rowLocks,
                   txnHeldLocks, execVars, ip, txnId, fatal, histVars>>

\* Mutant of Get_Body: Get hides uncommitted writes; for a key that a live
\* transaction has written it returns the value from before that transaction.
Get_Body_Committed(w) ==
    /\ Running(w)
    /\ pc[w] = "get_cs"
    /\ LET k == cur[w].key
           ts == {t \in DOMAIN txnUndoOps :
                    \E i \in 1..Len(txnUndoOps[t]) : txnUndoOps[t][i].key = k}
           v == IF ts = {} THEN Lookup(data, k)
                ELSE Lookup(PreImages(data, txnUndoOps[CHOOSE t \in ts : TRUE]), k)
       IN  /\ resultStore' = MapPut(resultStore, Handle(w, ip[w] - 1), v)
           /\ observed' = MapPut(observed, <<w, ip[w] - 1>>, v)
    /\ muReaders' = muReaders \ {w}
    /\ Finish(w, cur[w])
    /\ UNCHANGED <<data, muWriter, nextTxnId, txnUndoOps, rowLocksMu, rowLocks,
                   txnHeldLocks, scenario, db, script, phase, barriers,
                   txnId, fatal, rowLockedBy, txState, touched, snap, foreign,
                   timedOut, lastMut, errLog>>
    /\ UNCHANGED <<delPre, fnCalls, firstPre>>

\* Get: read d.data[key] (0 if absent), RUnlock; the closure of Txn.Get then
\* stores the value under (script, opIndex), opIndex counting from 0.
Get_Body(w) ==
    /\ Running(w)
    /\ pc[w] = "get_cs"
    /\ LET v == Lookup(data, cur[w].key)
       IN  /\ resultStore' = MapPut(resultStore, Handle(w, ip[w] - 1), v)
           /\ observed' = MapPut(observed, <<w, ip[w] - 1>>, v)
    /\ muReaders' = muReaders \ {w}
    /\ Finish(w, cur[w])
    /\ UNCHANGED <<data, muWriter, nextTxnId, txnUndoOps, rowLocksMu, rowLocks,
                   txnHeldLocks, scenario, db, script, phase, barriers,
                   txnId, fatal, rowLockedBy, txState, touched, snap, foreign,
                   timedOut, lastMut, errLog>>
    /\ UNCHANGED <<delPre, fnCalls, firstPre>>

\* ------------------------------------------------------------------ SetComputed

\* Results.GetValue: the stored value, 0 when there is none.
GetValue(h) == IF h \in DOMAIN resultStore THEN resultStore[h] ELSE 0

\* The valueFn of TestLostUpdateIncrement: exec.resultStore.GetValue(read) + 1.
Increment(h) == GetValue(h) + 1

\* Mutant of SetComputed_Eval: the value is the one valueFn returned when the
\* operation was recorded, when the result store was empty.
SetComputed_Eval_Eager(w) ==
    /\ StartOps(w, {"SetComputed"}) # {}
    /\ cur' = [cur EXCEPT ![w] = OpSet(script[w][ip[w]].key, 0 + 1)]
    /\ pc' = [pc EXCEPT ![w] = "computed"]
    /\ fnCalls' = MapPut(fnCalls, <<w, ip[w] - 1>>,
                         1 + (IF <<w, ip[w] - 1>> \in DOMAIN fnCalls
                              THEN fnCalls[<<w, ip[w] - 1>>] ELSE 0))
    /\ UNCHANGED <<storeVars, execVars, ip, txnId, fatal, rowLockedBy, txState,
                   touched, snap, foreign, timedOut, observed, lastMut, errLog,
                   delPre, firstPre>>

\* The closure of SetComputed, first statement: value := valueFn(). The call
\* t.db.Set(t.txnId, key, value) follows as the steps of Set.
SetComputed_Eval(w) ==
    /\ StartOps(w, {"SetComputed"}) # {}
    /\ cur' = [cur EXCEPT ![w] =
                  OpSet(script[w][ip[w]].key,
                        Increment(Handle(w, script[w][ip[w]].val)))]
    /\ pc' = [pc EXCEPT ![w] = "computed"]
    /\ fnCalls' = MapPut(fnCalls, <<w, ip[w] - 1>>,
                         1 + (IF <<w, ip[w] - 1>> \in DOMAIN fnCalls
                              THEN fnCalls[<<w, ip[w] - 1>>] ELSE 0))
    /\ UNCHANGED <<storeVars, execVars, ip, txnId, fatal, rowLockedBy, txState,
                   touched, snap, foreign, timedOut, observed, lastMut, errLog,
                   delPre, firstPre>>

\* ------------------------------------------------------------------ errors

\* Mutant of Store_Error: an error ends the goroutine of the script.
Store_Error_Abort(w) ==
    /\ db = FaultyDB
    /\ StartOps(w, DBCalls) # {}
    /\ errLog' = errLog \cup {<<w, ip[w] - 1>>}
    /\ pc' = [pc EXCEPT ![w] = "done"]
    /\ UNCHANGED <<storeVars, execVars, ip, cur, txnId, fatal, rowLockedBy, txState,
                   touched, snap, foreign, timedOut, observed, lastMut>>
    /\ UNCHANGED <<delPre, fnCalls, firstPre>>

\* A call of the faulty store returns an error before touching the store;
\* Txn.run prints it and goes on with the next operation. After a failed BeginTx
\* t.txnId keeps its value; a failed Get stores no result.
Store_Error(w) ==
    /\ db = FaultyDB
    /\ StartOps(w, DBCalls) # {}
    /\ errLog' = errLog \cup {<<w, ip[w] - 1>>}
    /\ Finish(w, script[w][ip[w]])
    /\ UNCHANGED <<storeVars, execVars, txnId, fatal, rowLockedBy, txState,
                   touched, snap, foreign, timedOut, observed, lastMut>>
    /\ UNCHANGED <<delPre, fnCalls, firstPre>>

\* ------------------------------------------------------------------ Commit, Rollback

\* SimpleDBReadUncommitted.Commit / Rollback: d.mu.Lock() is the first thing they do.
SimpleDB_End_Lock(w) ==
    /\ ~WriteLockDB
    /\ Start(w, {"Commit", "Rollback"}, "end_cs")
    /\ MuFree
    /\ muWriter' = w
    /\ UNCHANGED <<data, muReaders, nextTxnId, txnUndoOps, rowLocksMu, rowLocks,
                   txnHeldLocks, execVars, ip, txnId, fatal, histVars>>

\* SimpleDBReadUncommittedWriteLock.Commit / Rollback: d.mu.Lock() after
\* releaseRowLocks.
WriteLock_End_Lock(w) ==
    /\ Running(w)
    /\ pc[w] = "end_lock"
    /\ MuFree
    /\ muWriter' = w
    /\ pc' = [pc EXCEPT ![w] = "end_cs"]
    /\ UNCHANGED <<data, muReaders, nextTxnId, txnUndoOps, rowLocksMu, rowLocks,
                   txnHeldLocks, execVars, ip, cur, txnId, fatal, histVars>>

\* Mutant of Commit_Body: the undo log is kept.
Commit_Body_KeepLog(w) ==
    /\ Running(w)
    /\ pc[w] = "end_cs"
    /\ cur[w].kind = "Commit"
    /\ muWriter' = NoWorker
    /\ txState' = [txState EXCEPT ![w] = "committed"]
    /\ EndHistory(w)
    /\ NoteLastMutation(w, {})
    /\ Finish(w, cur[w])
    /\ UNCHANGED <<data, muReaders, nextTxnId, txnUndoOps, rowLocksMu, rowLocks,
                   txnHeldLocks, execVars, txnId, fatal, rowLockedBy, timedOut,
                   observed, lastMut, errLog, fnCalls>>

\* Commit under d.mu: delete the undo log, unlock.
Commit_Body(w) ==
    /\ Running(w)
    /\ pc[w] = "end_cs"
    /\ cur[w].kind = "Commit"
    /\ txnUndoOps' = MapDelete(txnUndoOps, txnId[w])
    /\ muWriter' = NoWorker
    /\ txState' = [txState EXCEPT ![w] = "committed"]
    /\ EndHistory(w)
    /\ NoteLastMutation(w, {})
    /\ Finish(w, cur[w])
    /\ UNCHANGED <<data, muReaders, nextTxnId, rowLocksMu, rowLocks, txnHeldLocks,
                   execVars, txnId, fatal, rowLockedBy, timedOut,
                   observed, lastMut, errLog>>
    /\ UNCHANGED fnCalls

\* Mutant of Rollback_Body: the undo log is deleted without being run.
Rollback_Body_NoReplay(w) ==
    /\ Running(w)
    /\ pc[w] = "end_cs"
    /\ cur[w].kind = "Rollback"
    /\ txnUndoOps' = MapDelete(txnUndoOps, txnId[w])
    /\ muWriter' = NoWorker
    /\ txState' = [txState EXCEPT ![w] = "aborted"]
    /\ EndHistory(w)
    /\ NoteLastMutation(w, {})
    /\ Finish(w, cur[w])
    /\ UNCHANGED <<data, muReaders, nextTxnId, rowLocksMu, rowLocks, txnHeldLocks,
                   execVars, txnId, fatal, rowLockedBy, timedOut,
                   observed, lastMut, errLog>>
    /\ UNCHANGED fnCalls

\* Rollback under d.mu: run the undo closures from the last to the first, delete
\* the undo log, unlock.
Rollback_Body(w) ==
    /\ Running(w)
    /\ pc[w] = "end_cs"
    /\ cur[w].kind = "Rollback"
    /\ LET log == UndoOf(txnId[w])
       IN  /\ data' = ReplayUndo(data, log, Len(log))
           /\ lastMut' = PreImages(lastMut, log)
           /\ NoteLastMutation(w, {log[i].key : i \in 1..Len(log)})
    /\ txnUndoOps' = MapDelete(txnUndoOps, txnId[w])
    /\ muWriter' = NoWorker
    /\ txState' = [txState EXCEPT ![w] = "aborted"]
    /\ EndHistory(w)
    /\ Finish(w, cur[w])
    /\ UNCHANGED <<muReaders, nextTxnId, rowLocksMu, rowLocks, txnHeldLocks,
                   execVars, txnId, fatal, rowLockedBy, timedOut,
                   observed, errLog>>
    /\ UNCHANGED fnCalls

\* ------------------------------------------------------------------ barriers

\* Mutant of Barrier: signaling an already signaled barrier is ignored.
Barrier_Idempotent(w) ==
    /\ StartOps(w, {"Barrier"}) # {}
    /\ LET n == script[w][ip[w]].name
       IN  IF barriers[n] \in {"open", "closed"}
           THEN /\ barriers' = [barriers EXCEPT ![n] = "closed"]
                /\ Finish(w, script[w][ip[w]])
                /\ UNCHANGED fatal
           ELSE /\ fatal' = TRUE
                /\ UNCHANGED <<barriers, ip, pc, cur>>
    /\ UNCHANGED <<storeVars, histVars, scenario, db, script, phase, resultStore,
                   txnId>>

\* Txn.run, opBarrier: close(barriers[name]). Closing a nil channel or a closed
\* channel panics.
Barrier(w) ==
    /\ StartOps(w, {"Barrier"}) # {}
    /\ LET n == script[w][ip[w]].name
       IN  IF barriers[n] = "open"
           THEN /\ barriers' = [barriers EXCEPT ![n] = "closed"]
                /\ Finish(w, script[w][ip[w]])
                /\ UNCHANGED fatal
           ELSE /\ fatal' = TRUE
                /\ UNCHANGED <<barriers, ip, pc, cur>>
    /\ UNCHANGED <<storeVars, histVars, scenario, db, script, phase, resultStore,
                   txnId>>

\* Mutant of WaitFor: the signal is a value sent once, and the receive takes it.
WaitFor_Consume(w) ==
    /\ StartOps(w, {"WaitFor"}) # {}
    /\ barriers[script[w][ip[w]].name] = "closed"
    /\ barriers' = [barriers EXCEPT ![script[w][ip[w]].name] = "open"]
    /\ Finish(w, script[w][ip[w]])
    /\ UNCHANGED <<storeVars, histVars, scenario, db, script, phase, resultStore,
                   txnId, fatal>>

\* Mutant of WaitFor: the receive does not block on an open channel.
WaitFor_NoBlock(w) ==
    /\ StartOps(w, {"WaitFor"}) # {}
    /\ Finish(w, script[w][ip[w]])
    /\ UNCHANGED <<storeVars, histVars, execVars, txnId, fatal>>

\* Txn.run, opWaitFor: <-barriers[name] returns once the channel is closed; a
\* receive from a nil channel blocks forever.
WaitFor(w) ==
    /\ StartOps(w, {"WaitFor"}) # {}
    /\ barriers[script[w][ip[w]].name] = "closed"
    /\ Finish(w, script[w][ip[w]])
    /\ UNCHANGED <<storeVars, histVars, execVars, txnId, fatal>>

\* Mutant of WaitForWithTimeout: the duration never elapses.
WaitForWithTimeout_Unbounded(w) ==
    /\ StartOps(w, {"WaitForWithTimeout"}) # {}
    /\ barriers[script[w][ip[w]].name] = "closed"
    /\ Finish(w, script[w][ip[w]])
    /\ UNCHANGED <<storeVars, histVars, execVars, txnId, fatal>>

\* WaitForWithTimeout: returns once the barrier is signaled or the duration has
\* elapsed, whichever is first; the duration can elapse at any moment.
WaitForWithTimeout(w) ==
    /\ StartOps(w, {"WaitForWithTimeout"}) # {}
    /\ timedOut' = IF barriers[script[w][ip[w]].name] = "closed"
                   THEN timedOut ELSE timedOut \cup {w}
    /\ Finish(w, script[w][ip[w]])
    /\ UNCHANGED <<storeVars, execVars, txnId, fatal,
                   rowLockedBy, txState, touched, snap, foreign,
                   observed, lastMut, errLog>>
    /\ UNCHANGED <<delPre, fnCalls, firstPre>>

\* Txn.PrintDbState: PrintState reads the store under d.mu.RLock() and prints it.
PrintDbState(w) ==
    /\ StartOps(w, {"PrintDbState"}) # {}
    /\ muWriter = NoWorker
    /\ Finish(w, script[w][ip[w]])
    /\ UNCHANGED <<storeVars, histVars, execVars, txnId, fatal>>

\* ------------------------------------------------------------------ specifications

\* The steps of the two stores that a client calling BeginTx, Set, Delete,
\* Commit and Rollback takes.
StoreStep(w) ==
    \/ BeginTx_Lock(w)
    \/ BeginTx_Body(w)
    \/ AcquireRowLock_Enter(w)
    \/ AcquireRowLock_Check(w)
    \/ AcquireRowLock_RowMuLock(w)
    \/ AcquireRowLock_Relock(w)
    \/ AcquireRowLock_Record(w)
    \/ ReleaseRowLocks_Lock(w)
    \/ ReleaseRowLocks_Body(w)
    \/ SimpleDB_Write_Lock(w)
    \/ WriteLock_Write_Lock(w)
    \/ Set_Body(w)
    \/ Delete_Body(w)
    \/ SimpleDB_End_Lock(w)
    \/ WriteLock_End_Lock(w)
    \/ Commit_Body(w)
    \/ Rollback_Body(w)

\* The steps of Txn.run that are not calls of the above.
ScriptStep(w) ==
    \/ Get_RLock(w)
    \/ Get_Body(w)
    \/ Barrier(w)
    \/ WaitFor(w)
    \/ WaitForWithTimeout(w)
    \/ PrintDbState(w)
    \/ Store_Error(w)
    \/ SetComputed_Eval(w)

\* The stores under clients that call them in any order ("free" scenario).
InitStore == Init /\ scenario = "free"
NextStore ==
    \/ Execute
    \/ ExecuteReturn
    \/ \E w \in Workers : StoreStep(w)
SpecStore == InitStore /\ [][NextStore]_vars

\* The executor running the scripts of the anomaly scenarios on either store.
InitScripts == Init /\ scenario \notin {"free", "write_cycle_g0_scripted"}
NextScripts ==
    \/ Execute
    \/ ExecuteReturn
    \/ \E w \in Workers : StoreStep(w)
    \/ \E w \in Workers : ScriptStep(w)
SpecScripts == InitScripts /\ [][NextScripts]_vars

\* The same under the Go scheduler: a goroutine that can take a step
\* eventually takes one.
SpecScriptsFair ==
    /\ SpecScripts
    /\ WF_vars(Execute)
    /\ WF_vars(ExecuteReturn)
    /\ \A w \in Workers : WF_vars(StoreStep(w) \/ ScriptStep(w))

\* TestWriteCycleG0 with its setup script as a fourth worker, on either store:
\* the steps its scripts take.
InitWriteCycle == Init /\ scenario = "write_cycle_g0_scripted"
NextWriteCycle ==
    \/ Execute
    \/ ExecuteReturn
    \/ \E w \in Workers :
          \/ BeginTx_Lock(w)
          \/ BeginTx_Body(w)
          \/ AcquireRowLock_Enter(w)
          \/ AcquireRowLock_Check(w)
          \/ AcquireRowLock_RowMuLock(w)
          \/ AcquireRowLock_Relock(w)
          \/ AcquireRowLock_Record(w)
          \/ ReleaseRowLocks_Lock(w)
          \/ ReleaseRowLocks_Body(w)
          \/ SimpleDB_Write_Lock(w)
          \/ WriteLock_Write_Lock(w)
          \/ Set_Body(w)
          \/ SimpleDB_End_Lock(w)
          \/ WriteLock_End_Lock(w)
          \/ Commit_Body(w)
          \/ Get_RLock(w)
          \/ Get_Body(w)
          \/ Barrier(w)
          \/ WaitFor(w)
SpecWriteCycle == InitWriteCycle /\ [][NextWriteCycle]_vars

Next ==
    \/ Execute
    \/ ExecuteReturn
    \/ \E w \in Workers : StoreStep(w)
    \/ \E w \in Workers : ScriptStep(w)

Spec == Init /\ [][Next]_vars

TypeOK ==
    /\ muWriter \in Workers \cup {NoWorker}
    /\ rowLocksMu \in Workers \cup {NoWorker}
    /\ DOMAIN data \subseteq Keys
    /\ DOMAIN txnUndoOps \subseteq TxIds
    /\ DOMAIN txnHeldLocks \subseteq TxIds
    /\ \A k \in Keys : rowLocks[k] \in {"nil", "unlocked", "locked"}
    /\ \A w \in Workers : txnId[w] \in TxIds

\* ------------------------------------------------------------------ properties

Ended(u) == txState[u] \in {"committed", "aborted"}

\* The transaction of worker u has not yet run releaseRowLocks.
Unreleased(u) == txState[u] = "active" /\ pc[u] \notin {"end_lock", "end_cs"}

\* Positions of Set/Delete of the row-locked store after rowMu.Lock() returned
\* (or after the early return of acquireRowLock).
PastRowLock == {"acq_relock", "acq_record", "write_lock", "write_cs"}

Holders(k) == {t \in TxIds : k \in Held(t)}

SameAt(d1, d2, k) ==
    /\ (k \in DOMAIN d1) = (k \in DOMAIN d2)
    /\ k \in DOMAIN d1 => d1[k] = d2[k]

\* C1. Row-lock mutual exclusion: in the row-locked store, for every key, at
\* most one transaction has the key in its held-key set, at most one
\* transaction has the key's mutex locked, and a recorded holder is the one
\* that locked the mutex.
C1_RowLockMutualExclusion ==
    WriteLockDB =>
        \A k \in Keys :
            /\ Cardinality(Holders(k)) <= 1
            /\ Cardinality(rowLockedBy[k]) <= 1
            /\ Holders(k) \subseteq rowLockedBy[k]
            /\ rowLockedBy[k] # {} => rowLocks[k] = "locked"

\* C1 witness: a transaction holds a key's row lock while a worker of another
\* transaction is at rowMu.Lock() for the same key.
C1_Witness ==
    /\ WriteLockDB
    /\ \E w \in Workers : \E t \in TxIds :
          /\ pc[w] = "acq_rowmu"
          /\ t # txnId[w]
          /\ cur[w].key \in Held(t)

\* C5. Undo correctness: when a Rollback returns, every key the transaction
\* wrote with Set or Delete, and that no other transaction mutated since the
\* transaction's first write, is in the state (present with its value, or
\* absent) it had immediately before that first write.
C5_UndoCorrectness ==
    [][\A w \in Workers :
          (pc[w] = "end_cs" /\ cur[w].kind = "Rollback" /\ pc'[w] # "end_cs")
          => \A k \in touched[w] \ foreign[w] : SameAt(data', snap[w], k)]_vars

\* C5 witness: a client has made MaxWrites writes and rolled back while no one
\* else had begun a transaction, and the key map is the initial one again.
C5_Witness ==
    /\ scenario = "free"
    /\ \E w \in Workers :
          /\ txState[w] = "aborted"
          /\ ip[w] = MaxWrites + 3
          /\ \A u \in Workers \ {w} : txState[u] = "none"
    /\ data \in SetupData("free")

\* C7. Writers to a key are serialized in the row-locked store: while a
\* transaction that wrote key k has not released its row locks, no worker of
\* another transaction is past rowMu.Lock() in a Set or Delete on k (so none
\* mutates k or returns).
C7_WritersSerialized ==
    WriteLockDB =>
        \A w \in Workers : \A u \in Workers \ {w} :
            (pc[w] \in PastRowLock /\ Unreleased(u)) => cur[w].key \notin touched[u]

\* C7 witness: a worker is blocked at rowMu.Lock() for a key that an unreleased
\* transaction of another worker has written.
C7_Witness ==
    /\ WriteLockDB
    /\ \E w \in Workers : \E u \in Workers \ {w} :
          /\ pc[w] = "acq_rowmu"
          /\ Unreleased(u)
          /\ cur[w].key \in touched[u]
          /\ rowLocks[cur[w].key] = "locked"

\* C8. Lock ordering of the row-locked store: a worker at rowMu.Lock() holds
\* neither d.mu nor d.rowLocksMu; a worker holding d.mu in Set/Delete already
\* holds the key's row lock; a worker holding d.mu in Commit/Rollback holds no
\* row lock any more.
C8_LockOrdering ==
    WriteLockDB =>
        \A w \in Workers :
            /\ pc[w] = "acq_rowmu" =>
                  muWriter # w /\ w \notin muReaders /\ rowLocksMu # w
            /\ pc[w] = "write_cs" => cur[w].key \in Held(txnId[w])
            /\ pc[w] = "end_cs" => Held(txnId[w]) = {}

\* C8 witness: a worker is blocked at rowMu.Lock() while another worker holds
\* d.mu.
C8_Witness ==
    /\ WriteLockDB
    /\ \E w \in Workers :
          /\ pc[w] = "acq_rowmu"
          /\ rowLocks[cur[w].key] = "locked"
          /\ muWriter \notin {NoWorker, w}

\* C9. Idempotent re-entry: a worker of a transaction that holds key k's row
\* lock never goes to rowMu.Lock() for k again, and the transaction's single
\* releaseRowLocks leaves none of its keys locked by it.
C9_IdempotentReentry ==
    WriteLockDB =>
        \A w \in Workers :
            /\ pc[w] \in {"acq_rowmu", "acq_relock", "acq_record"}
                  => cur[w].key \notin Held(txnId[w])
            /\ (pc[w] \in {"end_lock", "end_cs"} \/ Ended(w))
                  => \A k \in Keys : txnId[w] \notin rowLockedBy[k]

\* C9 witness: a transaction that holds a key's row lock and has written the
\* key is writing it again, under d.mu.
C9_Witness ==
    /\ WriteLockDB
    /\ \E w \in Workers :
          /\ pc[w] = "write_cs"
          /\ cur[w].key \in touched[w]
          /\ cur[w].key \in Held(txnId[w])

\* C10. Row-lock state machine: a key enters a transaction's held set only in
\* that transaction's first write to it, when no other transaction holds it; it
\* leaves the set only in that transaction's own Commit or Rollback, which
\* unlocks its mutex; when Commit or Rollback returns the transaction holds no
\* row lock and has no mutex locked.
C10_RowLockStateMachine ==
    [][WriteLockDB =>
        /\ \A t \in TxIds : \A k \in Keys :
            /\ (k \notin Held(t) /\ k \in Held(t)') =>
                  /\ \E w \in Workers :
                        /\ txnId[w] = t
                        /\ pc[w] = "acq_record"
                        /\ cur[w].key = k
                        /\ k \notin touched[w]
                  /\ Holders(k) = {}
            /\ (k \in Held(t) /\ k \notin Held(t)') =>
                  /\ \E w \in Workers :
                        /\ txnId[w] = t
                        /\ pc[w] = "rel_cs"
                        /\ cur[w].kind \in {"Commit", "Rollback"}
                  /\ rowLocks'[k] = "unlocked"
        /\ \A w \in Workers :
            (pc[w] = "end_cs" /\ pc'[w] # "end_cs") =>
                  /\ Held(txnId[w])' = {}
                  /\ \A k \in Keys : txnId[w] \notin rowLockedBy'[k]
      ]_vars

\* C10 witness: a committed client's value is in a key whose row lock another
\* transaction now holds.
C10_Witness ==
    /\ WriteLockDB
    /\ scenario = "free"
    /\ \E w \in Workers : \E u \in Workers \ {w} : \E k \in Keys :
          /\ txState[w] = "committed"
          /\ k \in Held(txnId[u])
          /\ Lookup(data, k) = FreeVal(w)

\* The value a Get stored for the handle (worker, opIndex).
HasResult(w, i) == <<w, i>> \in DOMAIN resultStore
Result(w, i) == resultStore[<<w, i>>]

\* In TestDirtyWrite txn3's Get(1) and Get(2) are operations 3 and 4.
DirtyWriteRead == HasResult(3, 3) /\ HasResult(3, 4)

\* C2. No dirty write under row locking: in the dirty-write scenario on the
\* row-locked store the values txn3 reads for key 1 and key 2 differ, and the
\* pair is (100, 200) or (200, 100).
C2_NoDirtyWriteRowLocked ==
    (scenario = "dirty_write" /\ WriteLockDB /\ DirtyWriteRead) =>
        /\ Result(3, 3) # Result(3, 4)
        /\ <<Result(3, 3), Result(3, 4)>> \in {<<100, 200>>, <<200, 100>>}

\* C2 witness: the dirty-write scenario has run to the end on the row-locked
\* store, Execute has returned and txn3 has read both keys.
C2_Witness ==
    /\ scenario = "dirty_write"
    /\ WriteLockDB
    /\ phase = "returned"
    /\ DirtyWriteRead

C4_WriteCyclePrevented ==
    (scenario = "write_cycle_g0" /\ WriteLockDB) =>
        /\ HasResult(3, 2) => Result(3, 2) = 12
        /\ HasResult(3, 3) => Result(3, 3) = 22

\* C4 witness: the write-cycle scenario has run to the end on the row-locked
\* store and the reader has read both keys.
C4_Witness ==
    /\ scenario = "write_cycle_g0"
    /\ WriteLockDB
    /\ phase = "returned"
    /\ HasResult(3, 2)
    /\ HasResult(3, 3)

\* C6. Dirty read at read-uncommitted, on both stores: in the dirty-read
\* scenario txn2's Get(1) returns 100; once txn1's Rollback has returned key 1
\* reads as 0, and the Get(1) of txn3, ordered after the Rollback, returns 0.
C6_DirtyReadThenRollback ==
    scenario = "dirty_read" =>
        /\ HasResult(2, 3) => Result(2, 3) = 100
        /\ txState[1] = "aborted" => Lookup(data, 1) = 0
        /\ HasResult(3, 2) => Result(3, 2) = 0

\* C6 witness: the dirty-read scenario has run to the end on the row-locked
\* store; txn2 and txn3 have both read key 1.
C6_Witness ==
    /\ scenario = "dirty_read"
    /\ WriteLockDB
    /\ phase = "returned"
    /\ HasResult(2, 3)
    /\ HasResult(3, 2)

\* The same on the unsynchronized store.
C6_WitnessSimpleDB ==
    /\ scenario = "dirty_read"
    /\ ~WriteLockDB
    /\ phase = "returned"
    /\ HasResult(2, 3)
    /\ HasResult(3, 2)

\* ------------------------------------------------------------------ executor properties

\* Positions in a script.
OpIndexes == UNION {DOMAIN ScriptsOf(scn)[w] : scn \in Scenarios, w \in Workers}

\* The operations of kind kd that worker w has recorded, as positions.
OpsOf(w, kd) == {i \in DOMAIN script[w] : script[w][i].kind = kd}

\* The Signal operations on barrier n that have been executed and returned.
PassedSignals(n) ==
    UNION {{<<w, i>> : i \in {j \in DOMAIN script[w] :
                                /\ j < ip[w]
                                /\ script[w][j].kind = "Barrier"
                                /\ script[w][j].name = n}} : w \in Workers}

\* Worker w is at its i-th operation, a WaitFor, which it has not passed.
AtWaitFor(w, i) ==
    /\ phase = "running"
    /\ pc[w] = "idle"
    /\ ip[w] = i
    /\ i \in OpsOf(w, "WaitFor")

\* Worker w has consumed its operation list.
Consumed(w) == ip[w] = Len(script[w]) + 1

\* C11. Barrier at-most-once: for every barrier name at most one Signal
\* operation, over all scripts, has ever succeeded, and the barrier is signaled
\* exactly when one has; a further Signal never passes (it ends the process).
C11_BarrierAtMostOnce ==
    \A n \in BarrierNames :
        /\ Cardinality(PassedSignals(n)) <= 1
        /\ (barriers[n] = "closed") <=> (PassedSignals(n) # {})

\* C11 witness: in the double-signal scenario the barrier has been signaled
\* once, and a second Signal on it has ended the process with a panic.
C11_Witness ==
    /\ scenario = "double_signal"
    /\ barriers["sig"] = "closed"
    /\ fatal
    /\ \E w \in Workers :
          /\ ip[w] \in OpsOf(w, "Barrier")
          /\ script[w][ip[w]].name = "sig"

\* C12. One signal releases every waiter: no worker stays forever at a WaitFor
\* whose Signal has been executed, whether it was waiting there before the
\* Signal or arrived after it (unless a panic has ended the process).
C12_OneSignalReleasesAll ==
    \A w \in Workers :
        []<>(fatal \/ ~(\E i \in OpIndexes :
                          AtWaitFor(w, i) /\ PassedSignals(script[w][i].name) # {}))

\* C12 witness: in TestComplexInterleaving txn1 and txn2 are both still at
\* WaitFor(setup_done) when the single Signal of setup has been executed.
C12_Witness ==
    /\ scenario = "complex_interleaving"
    /\ AtWaitFor(2, 1)
    /\ AtWaitFor(3, 1)
    /\ barriers["setup_done"] = "closed"
    /\ Cardinality(PassedSignals("setup_done")) = 1

\* C13 as stated. Barrier happens-before: once Execute has started the workers
\* every barrier name that some recorded script signals is registered, and a
\* WaitFor(name) that has returned was preceded by an executed Signal(name).
C13_BarrierHappensBefore ==
    /\ phase # "recorded" =>
          \A w \in Workers : \A i \in OpsOf(w, "Barrier") :
              barriers[script[w][i].name] # "nil"
    /\ \A w \in Workers : \A i \in OpsOf(w, "WaitFor") :
          i < ip[w] => PassedSignals(script[w][i].name) # {}

\* C14. Execute returns only after every worker has consumed its operation
\* list: when Execute has returned, every worker it started has ended with all
\* its operations executed, and every Get that returned a value has stored it
\* in the result store.
C14_ExecuteReturnsAfterAll ==
    phase = "returned" =>
        \A w \in Workers : Started(w) =>
            /\ pc[w] = "done"
            /\ Consumed(w)
            /\ \A i \in OpsOf(w, "Get") :
                  <<w, i - 1>> \notin errLog =>
                      /\ <<w, i - 1>> \in DOMAIN observed
                      /\ Handle(w, i - 1) \in DOMAIN resultStore

\* C14 witness: Execute has returned from TestComplexInterleaving, whose
\* three workers ran 17 operations, two of them Gets.
C14_Witness ==
    /\ scenario = "complex_interleaving"
    /\ phase = "returned"
    /\ \A w \in 1..3 : Started(w)
    /\ \A w \in Workers : Consumed(w)
    /\ HasResult(2, 2)
    /\ HasResult(3, 3)

\* The Get operations recorded in the scripts, as <<worker, opIndex>>.
RecordedGets ==
    UNION {{<<w, i - 1>> : i \in OpsOf(w, "Get")} : w \in Workers}

\* C15 as stated. Every script created with NewTxn is run by one worker: when
\* Execute has returned, every recorded script, whatever its name, has had each
\* of its operations executed.
C15_EveryScriptRuns ==
    phase = "returned" => \A w \in Workers : Consumed(w)

\* C16. Store call errors do not abort a script: on a store whose calls return
\* errors a worker ends only with its whole operation list executed, and
\* Execute returns.
C16_ErrorsDoNotAbort ==
    /\ [](scenario = "store_errors" =>
             \A w \in Workers : pc[w] = "done" => Consumed(w))
    /\ (scenario = "store_errors" ~> phase = "returned")

\* C16 witness: Execute has returned although txn1's BeginTx and Set returned
\* errors; txn1 still executed both its Signals and txn2 got past its WaitFor.
C16_Witness ==
    /\ scenario = "store_errors"
    /\ phase = "returned"
    /\ {<<1, 0>>, <<1, 1>>} \subseteq errLog
    /\ barriers["txn1_first_write_done"] = "closed"
    /\ barriers["txn1_committed"] = "closed"
    /\ Consumed(2)

\* C17 as stated. Result handles resolve to their own read: when Execute has
\* returned, the handle of every recorded Get resolves to the value that Get
\* read, and the handles of two different Gets are different.
C17_HandlesResolveToOwnRead ==
    phase = "returned" =>
        /\ \A g \in RecordedGets :
              g \in DOMAIN observed => GetValue(Handle(g[1], g[2])) = observed[g]
        /\ \A g \in RecordedGets : \A h \in RecordedGets :
              g # h => Handle(g[1], g[2]) # Handle(h[1], h[2])

\* C18. Get returns the latest write regardless of commit status: the value a
\* Get observes is what the most recent mutation of the key (a Set, a Delete or
\* an undo replay, by any transaction, committed or not) left there, and 0 when
\* that left the key absent; the Get logs no error.
C18_GetReturnsLatest ==
    [][\A w \in Workers :
          (pc[w] = "get_cs" /\ pc'[w] # "get_cs") =>
              /\ <<w, ip[w] - 1>> \in DOMAIN observed'
              /\ observed'[<<w, ip[w] - 1>>] = Lookup(lastMut, cur[w].key)
              /\ errLog' = errLog]_vars

\* C18 witness: txn1 of the read-latest scenario has read its own uncommitted
\* Set(1, 500), and txn2 has read that uncommitted value as well.
C18_Witness ==
    /\ scenario = "read_latest"
    /\ txState[1] = "active"
    /\ <<1, 3>> \in DOMAIN observed
    /\ observed[<<1, 3>>] = 500
    /\ <<2, 1>> \in DOMAIN observed
    /\ observed[<<2, 1>>] = 500

\* C19. Fresh transaction ids: the id BeginTx returns is greater than every id
\* returned before, has an empty undo log that did not exist before, and no
\* two workers that called BeginTx hold the same id.
C19_FreshTransactionIds ==
    /\ [][\A w \in Workers :
             (pc[w] = "begin_cs" /\ pc'[w] # "begin_cs") =>
                 /\ txnId'[w] >= FirstTxnId
                 /\ \A u \in Workers : txnId'[w] > txnId[u]
                 /\ txnId'[w] \notin DOMAIN txnUndoOps
                 /\ txnId'[w] \in DOMAIN txnUndoOps'
                 /\ txnUndoOps'[txnId'[w]] = <<>>]_vars
    /\ [](\A w \in Workers : \A u \in Workers \ {w} :
             txState[w] # "none" => txnId[w] # txnId[u])

\* C19 witness: two clients called BeginTx at the same time, the second one
\* waiting for d.mu while the first was inside; both now hold ids.
C19_Witness ==
    /\ scenario = "free"
    /\ txState[1] = "active"
    /\ txState[2] = "active"
    /\ txnId[2] < txnId[1]

\* Every WaitFor of an executed script names a barrier that an executed script
\* signals.
WaitsAreSignaled ==
    \A w \in Workers : \A i \in OpsOf(w, "WaitFor") :
        InTxns(scenario, w) =>
            \E u \in Workers : \E j \in OpsOf(u, "Barrier") :
                InTxns(scenario, u) /\ script[u][j].name = script[w][i].name

\* C20. No blocking in the unsynchronized-write store: on that store, when
\* every WaitFor names a barrier that is signaled, Execute comes to an end (it
\* returns, or a panic of a double Signal ends the process).
C20_NoBlockingUnsynchronized ==
    (db = "SimpleDBReadUncommitted" /\ WaitsAreSignaled)
        ~> (phase = "returned" \/ fatal)

\* C20 witness: the dirty-write scripts with unbounded waits have run to the end
\* on the unsynchronized store, where txn2 wrote key 1 while txn1, which had
\* written it, was still waiting for txn2_committed.
C20_Witness ==
    /\ scenario = "dirty_write_unbounded"
    /\ db = "SimpleDBReadUncommitted"
    /\ phase = "returned"
    /\ HasResult(3, 3)
    /\ Result(3, 3) = 200

\* ------------------------------------------------------------------ waits and row locks

\* Worker w is at a WaitForWithTimeout which it has not passed.
AtBoundedWait(w) ==
    /\ phase = "running"
    /\ pc[w] = "idle"
    /\ ip[w] \in OpsOf(w, "WaitForWithTimeout")

\* C21. The bounded-timeout wait always returns: no worker stays forever at a
\* WaitForWithTimeout, signaled or not; and the step in which the wait returns
\* leaves the barrier table as it was and moves no other worker.
C21_BoundedWaitReturns ==
    /\ \A w \in Workers : []<>(fatal \/ ~AtBoundedWait(w))
    /\ [][\A w \in Workers :
             (AtBoundedWait(w) /\ ip'[w] # ip[w]) =>
                 /\ barriers' = barriers
                 /\ \A u \in Workers \ {w} : pc'[u] = pc[u] /\ ip'[u] = ip[u]]_vars

\* C21 witness: on the row-locked store txn1 of TestDirtyWrite has left its
\* bounded wait by timeout; txn2_wrote_second is not signaled and txn2 is still
\* blocked on the row lock of key 1.
C21_Witness ==
    /\ scenario = "dirty_write"
    /\ WriteLockDB
    /\ 1 \in timedOut
    /\ ip[1] > 4
    /\ barriers["txn2_wrote_second"] = "open"
    /\ pc[2] = "acq_rowmu"

\* Worker w is at a WaitFor on a name that no script of e.txns signals, for which
\* registerBarriers made no channel.
AtUnsignaledWait(w) ==
    \E i \in OpIndexes :
        AtWaitFor(w, i) /\ RegisteredBarriers[script[w][i].name] = "nil"

\* C22 as stated. Waiting on a barrier name that no script ever signals fails
\* loudly: a worker that reaches such a WaitFor leads to the fatal error state
\* instead of staying blocked forever.
C22_UnsignaledWaitFailsLoudly ==
    \A w \in Workers : AtUnsignaledWait(w) ~> fatal

\* Worker w is blocked in rowMu.Lock() on a key whose lock the transaction of
\* worker u holds.
BlockedOn(w, u) ==
    /\ pc[w] = "acq_rowmu"
    /\ txState[u] = "active"
    /\ cur[w].key \in Held(txnId[u])

\* Each of the two workers is blocked on a row lock that the other one holds.
CrossBlocked(w, u) == w # u /\ BlockedOn(w, u) /\ BlockedOn(u, w)

\* C23. No deadlock detection in the row-locked store: when two transactions
\* are each blocked on a row lock the other holds, they stay so in every later
\* state; neither Set has returned, no error is reported, no panic is raised
\* and Execute has not returned.
C23_NoDeadlockDetection ==
    /\ [](\A w \in Workers : \A u \in Workers :
             CrossBlocked(w, u) =>
                 /\ phase = "running"
                 /\ ~fatal
                 /\ errLog = {}
                 /\ script[w][ip[w]].kind = "Set"
                 /\ script[u][ip[u]].kind = "Set")
    /\ [][\A w \in Workers : \A u \in Workers :
             CrossBlocked(w, u) => (CrossBlocked(w, u))']_vars

\* C23 witness: txn1 wrote key 1 and waits for the row lock of key 2, txn2
\* wrote key 2 and waits for the row lock of key 1.
C23_Witness ==
    /\ scenario = "row_deadlock"
    /\ CrossBlocked(1, 2)
    /\ cur[1].key = 2
    /\ cur[2].key = 1
    /\ Lookup(data, 1) = 100
    /\ Lookup(data, 2) = 200

\* C24. Blocked writers make progress after release: no worker stays forever
\* in rowMu.Lock() unless the key stays held by a transaction that has neither
\* committed nor rolled back; with several waiters on a key each of them gets
\* past the lock once the holders before it have ended.
C24_BlockedWritersProgress ==
    \A w \in Workers :
        []<>(\/ fatal
             \/ pc[w] # "acq_rowmu"
             \/ \E u \in Workers \ {w} : BlockedOn(w, u))

\* C24 witness: of the three writers of key 1, txn1 has committed, txn2 has
\* acquired the row lock that txn1 released, and txn3 is still blocked on it.
C24_Witness ==
    /\ scenario = "row_waiters"
    /\ txState[1] = "committed"
    /\ 1 \in Held(txnId[2])
    /\ BlockedOn(3, 2)

\* ------------------------------------------------------------------ the dirty-write scenario, row-locked

\* The Commit of worker w has run releaseRowLocks.
CommitReleased(w) ==
    \/ txState[w] = "committed"
    \/ cur[w].kind = "Commit" /\ pc[w] \in {"end_lock", "end_cs"}

\* C25. TestDirtyWrite on the row-locked store: txn2's Set(1, 200), its 4th
\* operation, gets past the row lock only after txn1's Commit has released
\* key 1; txn2_wrote_second is not signaled before that, and txn1 leaves its
\* bounded wait only by timeout; in the end Execute returns with all three
\* workers finished.
C25_DirtyWriteRowLockedOrdering ==
    /\ []((scenario = "dirty_write" /\ WriteLockDB) =>
             /\ (ip[2] > 4 \/ (ip[2] = 4 /\ pc[2] \in PastRowLock)) =>
                    CommitReleased(1)
             /\ barriers["txn2_wrote_second"] = "closed" => CommitReleased(1)
             /\ ip[1] > 4 => 1 \in timedOut)
    /\ (scenario = "dirty_write" /\ WriteLockDB) ~>
           (phase = "returned" /\ \A w \in Workers : pc[w] = "done" /\ Consumed(w))

\* C25 witness: TestDirtyWrite has run to its end on the row-locked store;
\* txn1 had timed out, and txn2 has signaled txn2_wrote_second.
C25_Witness ==
    /\ scenario = "dirty_write"
    /\ WriteLockDB
    /\ phase = "returned"
    /\ 1 \in timedOut
    /\ barriers["txn2_wrote_second"] = "closed"
    /\ Lookup(data, 1) = 200
    /\ Lookup(data, 2) = 100

\* The dirty-write scripts in which txn1 waits without a bound.
UnboundedDirtyWrite ==
    /\ scenario \in {"dirty_write_unbounded", "dirty_write_unbounded_second"}
    /\ WriteLockDB

\* txn1 is blocked at its WaitFor holding the row lock of key 1, and txn2 is
\* blocked in rowMu.Lock() on key 1.
WaitAndLockStuck ==
    /\ AtWaitFor(1, 4)
    /\ 1 \in Held(txnId[1])
    /\ BlockedOn(2, 1)
    /\ cur[2].key = 1

\* C26. Without the bounded wait the dirty-write scenario hangs on the
\* row-locked store: every execution comes to the state where txn1 is blocked
\* on the barrier holding the row lock of key 1 and txn2 is blocked on that
\* row lock, and stays there; Execute never returns.
C26_UnboundedWaitHangs ==
    /\ <>[](UnboundedDirtyWrite => WaitAndLockStuck)
    /\ [](UnboundedDirtyWrite => phase # "returned")

\* C26 witness: the hang in the variant that waits for txn2_committed, with
\* txn3 waiting for the same barrier.
C26_Witness ==
    /\ scenario = "dirty_write_unbounded"
    /\ WriteLockDB
    /\ WaitAndLockStuck
    /\ AtWaitFor(3, 2)
    /\ barriers["txn2_committed"] = "open"

\* The same in the variant that waits for txn2_wrote_second.
C26_WitnessSecond ==
    /\ scenario = "dirty_write_unbounded_second"
    /\ WriteLockDB
    /\ WaitAndLockStuck
    /\ barriers["txn2_wrote_second"] = "open"

\* ------------------------------------------------------------------ Delete, Commit

\* The step in which the Delete, or the Rollback, of worker w runs under d.mu.
DeleteStep(w) == pc[w] = "write_cs" /\ cur[w].kind = "Delete" /\ pc'[w] # "write_cs"
RollbackStep(w) == pc[w] = "end_cs" /\ cur[w].kind = "Rollback" /\ pc'[w] # "end_cs"

\* Key k is in the key map d as the Delete that recorded r found it.
AsFound(d, k, r) == (k \in DOMAIN d) = r.ok /\ (r.ok => d[k] = r.old)

CommitStep(w) == pc[w] = "end_cs" /\ cur[w].kind = "Commit" /\ pc'[w] # "end_cs"

\* C28. Commit only discards the undo log: on both stores it leaves every key
\* as it was and removes the transaction's undo log, and a Rollback of a
\* transaction that has already committed or rolled back changes no key.
C28_CommitDiscardsUndoLog ==
    [][\A w \in Workers :
          /\ CommitStep(w) =>
                /\ data' = data
                /\ txnId[w] \notin DOMAIN txnUndoOps'
          /\ (RollbackStep(w) /\ Ended(w)) => data' = data]_vars

\* C28 witness: on the row-locked store txn1 has run Set(1, 100), Commit and
\* then Rollback, and key 1 still holds 100; txn2 has rolled back twice.
C28_Witness ==
    /\ scenario = "end_twice"
    /\ WriteLockDB
    /\ Consumed(1)
    /\ Consumed(2)
    /\ Lookup(data, 1) = 100
    /\ 2 \notin DOMAIN data

\* ------------------------------------------------------------------ SetComputed, dirty read

\* How many times the valueFn of the operation with index i of worker w ran.
Calls(w, i) == IF <<w, i>> \in DOMAIN fnCalls THEN fnCalls[<<w, i>>] ELSE 0

\* C29. SetComputed is evaluated lazily: valueFn is not invoked while the
\* scripts are recorded; it is invoked once, when the worker is at that
\* operation with all earlier operations of its script returned; and for a
\* valueFn reading the handle of an earlier Get of the same script, the value
\* it returns and the value the Set writes is derived from what that Get read.
C29_SetComputedLazy ==
    /\ [](phase = "recorded" => DOMAIN fnCalls = {})
    /\ [](\A w \in Workers : \A i \in OpsOf(w, "SetComputed") :
             /\ Calls(w, i - 1) <= 1
             /\ i < ip[w] => Calls(w, i - 1) = 1
             /\ Calls(w, i - 1) = 1 => ip[w] >= i)
    /\ [][\A w \in Workers :
             LET g == <<w, script[w][ip[w]].val>>
             IN  /\ (pc[w] = "idle" /\ pc'[w] = "computed") =>
                       /\ g \in DOMAIN observed
                       /\ cur'[w].val = observed[g] + 1
                 /\ (/\ pc[w] = "write_cs"
                     /\ pc'[w] # "write_cs"
                     /\ ip[w] \in OpsOf(w, "SetComputed")) =>
                       data'[cur[w].key] = observed[g] + 1]_vars

\* C29 witness: TestLostUpdateIncrement has run to its end on the
\* unsynchronized store; both Gets read SetupVal, both valueFn ran once, and
\* the counter holds SetupVal + 1.
C29_Witness ==
    /\ scenario = "lost_update_increment"
    /\ ~WriteLockDB
    /\ phase = "returned"
    /\ observed[<<1, 1>>] = SetupVal
    /\ observed[<<2, 2>>] = SetupVal
    /\ Calls(1, 4) = 1
    /\ Calls(2, 6) = 1
    /\ Lookup(data, 1) = SetupVal + 1

\* C30 as stated. TestDirtyReadWithBarriers on the unsynchronized store:
\* txn2's Get(1), its operation 2, returns 100 in every interleaving.
C30_DirtyReadAlways100 ==
    (scenario = "dirty_read_with_barriers" /\ ~WriteLockDB /\ HasResult(2, 2)) =>
        Result(2, 2) = 100

\* ------------------------------------------------------------------ the anomaly scenarios as recorded

\* C31 as stated. TestWriteCycleG0 with its setup script run as a fourth
\* worker that nobody waits for: on the row-locked store the reader, which
\* waits only for txn2_committed, reads 12 for key 1 and 22 for key 2.
C31_WriteCycleScriptedReads ==
    (scenario = "write_cycle_g0_scripted" /\ WriteLockDB) =>
        /\ HasResult(3, 2) => Result(3, 2) = 12
        /\ HasResult(3, 3) => Result(3, 3) = 22

\* C32. Lost update on the unsynchronized store: in TestLostUpdateIncrement,
\* run on an empty store, the Gets of txn1 and txn2 both return 0 and the Get
\* of txn3, after both Commits, returns 1.
C32_LostUpdate ==
    (scenario = "lost_update" /\ ~WriteLockDB) =>
        /\ HasResult(1, 1) => Result(1, 1) = 0
        /\ HasResult(2, 2) => Result(2, 2) = 0
        /\ HasResult(3, 3) => Result(3, 3) = 1

\* C32 witness: the scripts have run to their end on the unsynchronized store,
\* both transactions have committed and all three Gets have stored a value.
C32_Witness ==
    /\ scenario = "lost_update"
    /\ ~WriteLockDB
    /\ phase = "returned"
    /\ txState[1] = "committed"
    /\ txState[2] = "committed"
    /\ HasResult(1, 1)
    /\ HasResult(2, 2)
    /\ HasResult(3, 3)
    /\ Calls(1, 4) = 1
    /\ Calls(2, 6) = 1

\* C33. Circular information flow (G1c), on both stores: in
\* TestCircularInformationFlow_G1c txn1's Get(2) returns 22 and txn2's Get(1)
\* returns 11; Execute returns, so that no worker blocks forever; and the
\* final state, which txn3 reads, is key 1 = 11 and key 2 = 22.
C33_CircularInformationFlow ==
    /\ [](scenario = "circular_information_flow_g1c" =>
             /\ HasResult(1, 6) => Result(1, 6) = 22
             /\ HasResult(2, 7) => Result(2, 7) = 11
             /\ HasResult(3, 2) => Result(3, 2) = 11
             /\ HasResult(3, 3) => Result(3, 3) = 22
             /\ phase = "returned" => (Lookup(data, 1) = 11 /\ Lookup(data, 2) = 22))
    /\ (scenario = "circular_information_flow_g1c" ~>
           (phase = "returned" /\ \A w \in Workers : pc[w] = "done" /\ Consumed(w)))

\* C33 witness: the four scripts have run to their end on the row-locked
\* store; txn1 and txn2 have each read the other's write before it committed.
C33_Witness ==
    /\ scenario = "circular_information_flow_g1c"
    /\ WriteLockDB
    /\ phase = "returned"
    /\ HasResult(1, 6)
    /\ HasResult(2, 7)
    /\ HasResult(3, 2)
    /\ HasResult(3, 3)

\* The same on the unsynchronized store.
C33_WitnessSimpleDB ==
    /\ scenario = "circular_information_flow_g1c"
    /\ ~WriteLockDB
    /\ phase = "returned"
    /\ HasResult(1, 6)
    /\ HasResult(2, 7)

\* ------------------------------------------------------------------ rollback next to other writers

\* The transaction of worker u has written key k, holds its row lock and has
\* not called Commit or Rollback.
OwnsWrite(u, k) ==
    /\ txState[u] = "active"
    /\ k \in touched[u]
    /\ k \in Held(txnId[u])

\* C34 as stated. A write survives another transaction's rollback under row
\* locking: on the row-locked store, while a transaction that wrote key k holds
\* the row lock of k, only that transaction changes k; the undo replay of
\* another transaction's Rollback does not.
C34_WriteSurvivesForeignRollback ==
    [][WriteLockDB =>
          \A u \in Workers : \A k \in Keys :
              OwnsWrite(u, k) => (SameAt(data', data, k) \/ pc'[u] # pc[u])]_vars

\* C35 as stated. Rollback under concurrent writers in the unsynchronized
\* store: the Rollback of a transaction leaves every key the transaction wrote
\* with Set or Delete in the state it had immediately before the transaction's
\* first write of it, whatever other transactions wrote there in between.
C35_RollbackDiscardsOtherWrites ==
    [][~WriteLockDB =>
          \A w \in Workers :
              RollbackStep(w) =>
                  \A k \in touched[w] : AsFound(data', k, firstPre[w][k])]_vars

\* C36. Write cycle on the unsynchronized store: in the write-cycle scripts
\* started from key1 = 10 and key2 = 20 the reader, which waits for
\* txn2_committed, reads 12 for key 1, and 21 or 22 for key 2.
C36_WriteCycleUnsynchronized ==
    (scenario = "write_cycle_g0" /\ ~WriteLockDB) =>
        /\ HasResult(3, 2) => Result(3, 2) = 12
        /\ HasResult(3, 3) => Result(3, 3) \in {21, 22}

\* C36 witness: the reader has read key 1 from txn2 and key 2 from txn1, whose
\* Set(2, 21) landed after txn2's Set(2, 22).
C36_Witness ==
    /\ scenario = "write_cycle_g0"
    /\ ~WriteLockDB
    /\ phase = "returned"
    /\ HasResult(3, 2)
    /\ Result(3, 2) = 12
    /\ HasResult(3, 3)
    /\ Result(3, 3) = 21

\* The interleaving in which the reader reads 22 for key 2.
C36_WitnessNoCycle ==
    /\ scenario = "write_cycle_g0"
    /\ ~WriteLockDB
    /\ phase = "returned"
    /\ HasResult(3, 2)
    /\ Result(3, 2) = 12
    /\ HasResult(3, 3)
    /\ Result(3, 3) = 22

\* TestLostUpdateIncrement on the row-locked store.
LostUpdateRowLocked ==
    /\ scenario \in {"lost_update", "lost_update_increment"}
    /\ WriteLockDB

\* txn1 holds the row lock of key 1 and is at WaitFor(txn2_wrote), txn2 is
\* blocked in rowMu.Lock() on key 1 inside its SetComputed, and txn3 is at
\* WaitFor(txn1_committed).
LostUpdateStuck ==
    /\ AtWaitFor(1, 7)
    /\ 1 \in Held(txnId[1])
    /\ ip[2] = 7
    /\ BlockedOn(2, 1)
    /\ cur[2].key = 1
    /\ AtWaitFor(3, 2)

\* C37. The lost-update scripts never complete on the row-locked store: every
\* execution comes to the state described above and stays in it, no step is
\* possible from it, and Execute never returns.
C37_LostUpdateHangsRowLocked ==
    /\ <>[](LostUpdateRowLocked => LostUpdateStuck)
    /\ [](LostUpdateRowLocked => phase # "returned")
    /\ [][~(LostUpdateRowLocked /\ LostUpdateStuck)]_vars

\* C37 witness: the hang, with txn1's increment written and uncommitted.
C37_Witness ==
    /\ scenario = "lost_update"
    /\ WriteLockDB
    /\ LostUpdateStuck
    /\ Lookup(data, 1) = 1
    /\ txState[1] = "active"
    /\ barriers["txn2_wrote"] = "open"
    /\ barriers["txn1_committed"] = "open"

====
